---- MODULE Spec2Model ----
(***************************************************************************)
(* A state-machine model of axcommunicator: the order intake pipeline      *)
(* (handlers), the ephemeral file store, the tenant registry, the two      *)
(* delivery channels and the per-IP rate limiter.                          *)
(*                                                                         *)
(* Time is counted in ticks of 12 hours.  A byte buffer is represented by  *)
(* its leading bytes (head) and its total length (len).  Environment keys  *)
(* are tuples <<prefix, suffix...>> standing for PREFIX_SUFFIX_...         *)
(***************************************************************************)
EXTENDS Integers, Sequences, FiniteSets, TLC

(***************************************************************************)
(* Bounds of the model                                                     *)
(***************************************************************************)
\* the clock stops after this many ticks
MaxTime == 2
\* number of requests that can be inside the rate limiter at once
MaxInflight == 2
\* a request does not queue behind a wait of more than this many tokens
MaxWait == 2
MaxRows == 2

(***************************************************************************)
(* File store: constants and the two PDF tests                             *)
(***************************************************************************)
MaxFileSize == 10485760
PDFMagicNumber == <<"%", "P", "D", "F", "-">>
\* 24 * time.Hour, in ticks of 12 hours
CleanupInterval == 2

\* bytes.HasPrefix on the represented buffer
HasPrefix(data, p) ==
    /\ data.len >= Len(p)
    /\ Len(data.head) >= Len(p)
    /\ SubSeq(data.head, 1, Len(p)) = p

\* filetype.IsMIME(data, "application/pdf"): the h2non matcher looks at the
\* first four bytes only
IsMIMEPdf(data) ==
    /\ data.len > 3
    /\ Len(data.head) > 3
    /\ SubSeq(data.head, 1, 4) = <<"%", "P", "D", "F">>

\* http.DetectContentType: "%PDF-" is an exact signature at offset 0
DetectContentType(data) ==
    IF HasPrefix(data, <<"%", "P", "D", "F", "-">>) THEN "application/pdf"
    ELSE IF HasPrefix(data, <<"G", "I", "F", "8">>) THEN "image/gif"
    ELSE IF data.len = 0 THEN "text/plain; charset=utf-8"
    ELSE "application/octet-stream"

\* a validation that trusts the sniffer alone
ValidatePDFSniffOnly(data) == IsMIMEPdf(data)

ValidatePDF(data) ==
    IF data.len < Len(PDFMagicNumber) THEN FALSE
    ELSE HasPrefix(data, PDFMagicNumber) /\ IsMIMEPdf(data)

\* sample buffers
GoodPdf == [head |-> <<"%", "P", "D", "F", "-">>, len |-> 2048]
BigPdf == [head |-> <<"%", "P", "D", "F", "-">>, len |-> MaxFileSize + 1]
NoDashPdf == [head |-> <<"%", "P", "D", "F", "1">>, len |-> 2048]
GifFile == [head |-> <<"G", "I", "F", "8", "9">>, len |-> 2048]
NoBytes == [head |-> <<>>, len |-> 0]
ExactPdf == [head |-> <<"%", "P", "D", "F", "-">>, len |-> MaxFileSize]
ShortPdf == [head |-> <<"%", "P", "D", "F">>, len |-> 4]

(***************************************************************************)
(* Tenant registry (config.go)                                             *)
(***************************************************************************)
\* strings.ToLower / ToUpper / TrimSpace on the strings the model uses
ToLower(s) ==
    CASE s = "Acme" -> "acme"
      [] s = "ACME" -> "acme"
      [] s = " ACME" -> " acme"
      [] s = "ACM" -> "acm"
      [] s = "Gamma" -> "gamma"
      [] s = "GAMMA" -> "gamma"
      [] s = "EN" -> "en"
      [] s = "RU" -> "ru"
      [] s = "ES" -> "es"
      [] s = " RU" -> " ru"
      [] OTHER -> s

ToUpper(s) ==
    CASE s = "en" -> "EN"
      [] s = "ru" -> "RU"
      [] s = "es" -> "ES"
      [] s = "fr" -> "FR"
      [] OTHER -> s

TrimSpace(s) ==
    CASE s = " ru" -> "ru"
      [] s = " RU" -> "RU"
      [] s = " acme" -> "acme"
      [] s = " ACME" -> "ACME"
      [] OTHER -> s

\* os.Environ(): the process environment, in order.  The value of a _LANGS
\* key is given as strings.Split(value, ",") leaves it.
Environ ==
    << [key |-> <<"WS", "SERVICE_NAME">>, val |-> "Acme"],
       [key |-> <<"WS", "LANGS">>, val |-> <<"en", "ru">>],
       [key |-> <<"WS", "TG_BOT_TOKEN">>, val |-> "tok"],
       [key |-> <<"WS", "TG_CHAT_ID">>, val |-> "42"],
       [key |-> <<"WS", "SMTP_HOST">>, val |-> "smtp.acme"],
       [key |-> <<"WS", "EMAIL_SUBJECT", "EN", "PATH">>, val |-> "acme/subject_en.txt"],
       [key |-> <<"WS", "EMAIL_BODY", "EN", "PATH">>, val |-> "acme/email_en.txt"],
       [key |-> <<"WS", "TG_MSG", "EN", "PATH">>, val |-> "acme/tg_en.txt"],
       [key |-> <<"WS", "EMAIL_SUBJECT", "RU">>, val |-> "Zakaz {full_name}"],
       [key |-> <<"WS", "TG_MSG", "RU", "PATH">>, val |-> "acme/tg_ru.txt"],
       [key |-> <<"DH", "SERVICE_NAME">>, val |-> "beta"],
       [key |-> <<"PORT">>, val |-> "8600"] >>

\* an environment whose language list is written "EN, ru", with a bot token
\* and no chat id
EnvironMixedCase ==
    << [key |-> <<"GM", "SERVICE_NAME">>, val |-> "Gamma"],
       [key |-> <<"GM", "LANGS">>, val |-> <<"EN", " ru">>],
       [key |-> <<"GM", "TG_BOT_TOKEN">>, val |-> "tok"],
       [key |-> <<"GM", "EMAIL_SUBJECT", "EN", "PATH">>, val |-> "gamma/subject_en.txt"],
       [key |-> <<"GM", "EMAIL_SUBJECT", "RU", "PATH">>, val |-> "gamma/subject_ru.txt"],
       [key |-> <<"GM", "EMAIL_BODY", "RU", "PATH">>, val |-> "gamma/email_ru.txt"],
       [key |-> <<"GM", "TG_MSG", "RU", "PATH">>, val |-> "gamma/tg_ru.txt"] >>

\* an environment in which two prefixes declare the same name in different
\* letter case, and a tenant has a chat id and no bot token
EnvironSameName ==
    << [key |-> <<"WS", "SERVICE_NAME">>, val |-> "Acme"],
       [key |-> <<"WS", "SMTP_HOST">>, val |-> "smtp.acme"],
       [key |-> <<"XY", "SERVICE_NAME">>, val |-> "ACME"],
       [key |-> <<"XY", "SMTP_HOST">>, val |-> "smtp.other"],
       [key |-> <<"DH", "SERVICE_NAME">>, val |-> "beta"],
       [key |-> <<"DH", "TG_CHAT_ID">>, val |-> "42"] >>

\* an environment that declares no tenant
EnvironBare == << [key |-> <<"PORT">>, val |-> "8600"] >>

Environs == {Environ, EnvironMixedCase, EnvironSameName, EnvironBare}

\* template files readable when the process starts
StartupFiles == {"acme/tg_en.txt", "acme/email_en.txt", "gamma/tg_ru.txt"}

Getenv(env, k) ==
    IF \E i \in 1..Len(env) : env[i].key = k
    THEN env[CHOOSE i \in 1..Len(env) : env[i].key = k].val
    ELSE ""

\* strings.Split(os.Getenv(prefix+"_LANGS"), ",")
SplitLangs(env, prefix) ==
    IF \E i \in 1..Len(env) : env[i].key = <<prefix, "LANGS">>
    THEN Getenv(env, <<prefix, "LANGS">>) ELSE <<"">>

Range(s) == {s[i] : i \in 1..Len(s)}

\* the keys of the per-language maps: TrimSpace(ToLower(lang))
NormLang(l) == TrimSpace(ToLower(l))

\* loadEmailSubjectPaths, loadEmailBodyPaths, loadTelegramPaths
loadPaths(env, prefix, part, langs) ==
    LET have == {NormLang(l) : l \in
                   {x \in Range(langs) :
                      Getenv(env, <<prefix, part, ToUpper(NormLang(x)), "PATH">>) # ""}}
    IN [l \in have |-> Getenv(env, <<prefix, part, ToUpper(l), "PATH">>)]

\* loadEmailTemplates: the inline subject and body of each language; a body
\* not given inline is read from the body path when the process starts (the
\* text of a file is represented by its path)
loadEmailTemplates(env, prefix, langs) ==
    [l \in {NormLang(x) : x \in Range(langs)} |->
        [Subject |-> Getenv(env, <<prefix, "EMAIL_SUBJECT", ToUpper(l)>>),
         Body |-> IF Getenv(env, <<prefix, "EMAIL_BODY", ToUpper(l)>>) # ""
                  THEN Getenv(env, <<prefix, "EMAIL_BODY", ToUpper(l)>>)
                  ELSE IF Getenv(env, <<prefix, "EMAIL_BODY", ToUpper(l), "PATH">>) \in StartupFiles
                  THEN Getenv(env, <<prefix, "EMAIL_BODY", ToUpper(l), "PATH">>)
                  ELSE ""]]

\* loadTelegramTemplates: the languages whose template file was read at startup
loadTelegramTemplates(env, prefix, langs) ==
    {l \in DOMAIN loadPaths(env, prefix, "TG_MSG", langs) :
        loadPaths(env, prefix, "TG_MSG", langs)[l] \in StartupFiles}

ServiceOf(env, prefix, name) ==
    LET split == SplitLangs(env, prefix)
        langs == IF Len(split) = 0 \/ (Len(split) = 1 /\ split[1] = "")
                 THEN <<"en", "ru", "es">> ELSE split
    IN [Name |-> name,
        SMTP |-> [Host |-> Getenv(env, <<prefix, "SMTP_HOST">>),
                  Admin |-> Getenv(env, <<prefix, "ADMIN_EMAIL">>)],
        Telegram |-> [BotToken |-> Getenv(env, <<prefix, "TG_BOT_TOKEN">>),
                      ChatID |-> Getenv(env, <<prefix, "TG_CHAT_ID">>)],
        EmailTemplates |-> loadEmailTemplates(env, prefix, langs),
        EmailTemplateSubjectPaths |-> loadPaths(env, prefix, "EMAIL_SUBJECT", langs),
        EmailTemplateBodyPaths |-> loadPaths(env, prefix, "EMAIL_BODY", langs),
        TelegramTemplates |-> loadTelegramTemplates(env, prefix, langs),
        TelegramTemplatePaths |-> loadPaths(env, prefix, "TG_MSG", langs),
        SupportedLangs |-> langs]

\* a build that gives up at the first declaration without an SMTP host
RECURSIVE LoadFromStrict(_, _, _)
LoadFromStrict(env, i, acc) ==
    IF i > Len(env) THEN acc
    ELSE LET e == env[i]
         IN IF Len(e.key) = 2 /\ e.key[2] = "SERVICE_NAME"
            THEN IF Getenv(env, <<e.key[1], "SMTP_HOST">>) = "" THEN acc
                 ELSE LoadFromStrict(env, i + 1,
                        [n \in DOMAIN acc \cup {ToLower(e.val)} |->
                           IF n = ToLower(e.val) THEN ServiceOf(env, e.key[1], e.val)
                           ELSE acc[n]])
            ELSE LoadFromStrict(env, i + 1, acc)

\* LoadServices: one entry per *_SERVICE_NAME key, keyed by the lower-cased
\* name; a later declaration of the same name overwrites an earlier one
RECURSIVE LoadFrom(_, _, _)
LoadFrom(env, i, acc) ==
    IF i > Len(env) THEN acc
    ELSE LET e == env[i]
         IN IF Len(e.key) = 2 /\ e.key[2] = "SERVICE_NAME"
            THEN LoadFrom(env, i + 1,
                   [n \in DOMAIN acc \cup {ToLower(e.val)} |->
                      IF n = ToLower(e.val) THEN ServiceOf(env, e.key[1], e.val)
                      ELSE acc[n]])
            ELSE LoadFrom(env, i + 1, acc)

LoadServices(env) == LoadFrom(env, 1, << >>)

\* a channel that counts as configured with a token or a chat id alone
TelegramConfiguredEither(tc) == tc.BotToken # "" \/ tc.ChatID # ""

\* TelegramConfig.Configured
TelegramConfigured(tc) == tc.BotToken # "" /\ tc.ChatID # ""

\* utils.Contains
Contains(slice, item) == \E i \in 1..Len(slice) : slice[i] = item

\* a lookup that falls back to some tenant when the name is not registered
GetServiceOrAny(svcs, name) ==
    IF ToLower(name) \in DOMAIN svcs
    THEN [ok |-> TRUE, svc |-> svcs[ToLower(name)]]
    ELSE [ok |-> TRUE, svc |-> svcs[CHOOSE n \in DOMAIN svcs : TRUE]]

\* a lookup that forgives surrounding white space
GetServiceTrimmed(svcs, name) ==
    IF TrimSpace(ToLower(name)) \in DOMAIN svcs
    THEN [ok |-> TRUE, svc |-> svcs[TrimSpace(ToLower(name))]]
    ELSE [ok |-> FALSE, svc |-> << >>]

\* config.GetService
GetService(svcs, name) ==
    IF ToLower(name) \in DOMAIN svcs
    THEN [ok |-> TRUE, svc |-> svcs[ToLower(name)]]
    ELSE [ok |-> FALSE, svc |-> << >>]

(***************************************************************************)
(* utils.FillTemplate                                                      *)
(* A text is the sequence of its pieces; the piece "{key}" is a            *)
(* placeholder and every other piece is literal text.  A value of the      *)
(* data mapping is a string (its pieces) or an integer.                    *)
(***************************************************************************)
StrValue(pieces) == [kind |-> "string", s |-> pieces, n |-> 0]
IntValue(n) == [kind |-> "int", s |-> << >>, n |-> n]

\* "{" + key + "}"
Placeholder(key) ==
    CASE key = "full_name" -> "{full_name}"
      [] key = "contact" -> "{contact}"
      [] key = "languages" -> "{languages}"
      [] OTHER -> "{}"

\* value.(string), else fmt.Sprintf("%v", value)
Sprint(value) ==
    IF value.kind = "string" THEN value.s
    ELSE <<CASE value.n = 0 -> "0" [] value.n = 2 -> "2" [] OTHER -> "7">>

\* strings.ReplaceAll(text, placeholder, value)
RECURSIVE ReplaceAll(_, _, _)
ReplaceAll(text, placeholder, value) ==
    IF text = << >> THEN << >>
    ELSE (IF Head(text) = placeholder THEN value ELSE <<Head(text)>>)
         \o ReplaceAll(Tail(text), placeholder, value)

\* FillTemplate: one ReplaceAll per key of the mapping, each on the result
\* of the one before, in the order the map iteration gives the keys
RECURSIVE FillTemplate(_, _, _)
FillTemplate(template, data, order) ==
    IF order = << >> THEN template
    ELSE FillTemplate(ReplaceAll(template, Placeholder(Head(order)), Sprint(data[Head(order)])),
                      data, Tail(order))

(***************************************************************************)
(* State                                                                   *)
(***************************************************************************)
VARIABLES
    services,   \* config.services: lower-cased name -> ServiceConfig
    now,        \* the clock, in ticks
    fs,         \* app/storage/temp: the entries present, [name, mtime, size, armed, dir]
    rows,       \* tables project_orders and cookie_consents, in insertion order
    h,          \* the frame of the order request being handled
    limiters,   \* RateLimitMiddleware: client IP -> limiter object
    tokens,     \* limiter object -> tokens in its bucket
    rl,         \* the requests inside RateLimitMiddleware, by slot
    win,        \* an observed minute of the rate limiter: requests passed in it
    call,       \* the last call made on its own (registry, channel, renderer,
                \* consent endpoint, file store), with its result
    migrations, \* table migrations: the names recorded, in insertion order
    pending     \* the deletions under way when the file store is run on its
                \* own: sleeping scheduleFileDeletion goroutines, deferred
                \* cleanups, files a sweep has listed.  (In the order pipeline
                \* a sleeping timer is the armed flag of its file and the
                \* deferred cleanup is h.filePaths.)

vars == <<services, now, fs, rows, h, limiters, tokens, rl, win, call, pending,
         migrations>>
pipeVars == <<services, now, fs, rows, h>>
rlVars == <<limiters, tokens, rl>>

(***************************************************************************)
(* Order intake pipeline: HandleProjectOrder                               *)
(***************************************************************************)
Mandatory == {"specification", "invoice", "contract"}

\* the buffer the order carries under a file name
Content(order, name) ==
    CASE name = "specification" -> order.SpecificationPdf
      [] name = "invoice" -> order.InvoicePdf
      [] name = "contract" -> order.ContractPdf
      [] OTHER -> order.BriefFile

\* saveOrderFiles: the keys of its files map
FilesOf(order) ==
    Mandatory \cup (IF order.BriefFile.len > 0 THEN {"brief"} ELSE {})

\* the language the handler asks for: body > Accept-Language > "en"
RequestedLang(order, hdr) ==
    IF order.Language # "" THEN order.Language
    ELSE IF hdr.AcceptLanguage # "" THEN hdr.AcceptLanguage
    ELSE "en"

\* a negotiation that keeps a language the tenant does not support
NegotiateLangKeeps(svc, lang) == lang

\* the fallback to the tenant's first language
NegotiateLang(svc, lang) ==
    IF Contains(svc.SupportedLangs, lang) THEN lang
    ELSE IF Len(svc.SupportedLangs) > 0 THEN svc.SupportedLangs[1]
    ELSE "en"

\* an intake that forgets to validate the invoice
IntakeSkipsInvoice(svcs, order, hdr) ==
    IF ~order.decodeOk
    THEN [code |-> 400, msg |-> "Invalid request payload", lang |-> ""]
    ELSE IF order.FullName = "" \/ order.ContactInfo = "" \/ order.PaymentMethod = ""
    THEN [code |-> 400, msg |-> "Missing required fields", lang |-> ""]
    ELSE IF \/ ~ValidatePDF(order.SpecificationPdf)
            \/ ~ValidatePDF(order.ContractPdf)
    THEN [code |-> 400, msg |-> "Invalid PDF files", lang |-> ""]
    ELSE IF hdr.XServiceName = ""
    THEN [code |-> 400, msg |-> "Missing X-Service-Name", lang |-> ""]
    ELSE IF ~GetService(svcs, hdr.XServiceName).ok
    THEN [code |-> 400, msg |-> "Service not configured", lang |-> ""]
    ELSE [code |-> 0, msg |-> "",
          lang |-> NegotiateLang(GetService(svcs, hdr.XServiceName).svc,
                                 RequestedLang(order, hdr))]

\* HandleProjectOrder up to saveOrderFiles: the status it answers with (0: it
\* goes on), the message, and the negotiated language
Intake(svcs, order, hdr) ==
    IF ~order.decodeOk
    THEN [code |-> 400, msg |-> "Invalid request payload", lang |-> ""]
    ELSE IF order.FullName = "" \/ order.ContactInfo = "" \/ order.PaymentMethod = ""
    THEN [code |-> 400, msg |-> "Missing required fields", lang |-> ""]
    ELSE IF \/ ~ValidatePDF(order.SpecificationPdf)
            \/ ~ValidatePDF(order.InvoicePdf)
            \/ ~ValidatePDF(order.ContractPdf)
    THEN [code |-> 400, msg |-> "Invalid PDF files", lang |-> ""]
    ELSE IF hdr.XServiceName = ""
    THEN [code |-> 400, msg |-> "Missing X-Service-Name", lang |-> ""]
    ELSE IF ~GetService(svcs, hdr.XServiceName).ok
    THEN [code |-> 400, msg |-> "Service not configured", lang |-> ""]
    ELSE [code |-> 0, msg |-> "",
          lang |-> NegotiateLang(GetService(svcs, hdr.XServiceName).svc,
                                 RequestedLang(order, hdr))]

\* what os.WriteFile can do: write the file, fail before creating it, or fail
\* in the middle and leave a partially written file
WriteOutcomes == {"ok", "nofile", "partial"}

\* a save that arms no deferred deletion
SaveTempFileNoTimer(data, prefix, io, t, files) ==
    IF data.len > MaxFileSize
    THEN [err |-> "ErrFileTooLarge", fs |-> files]
    ELSE IF io = "nofile"
    THEN [err |-> "write failed", fs |-> files]
    ELSE IF io = "partial"
    THEN [err |-> "write failed",
          fs |-> files \cup {[name |-> prefix, mtime |-> t, size |-> 0, armed |-> FALSE, dir |-> FALSE]}]
    ELSE IF DetectContentType(data) # "application/pdf"
    THEN [err |-> "ErrInvalidFileType", fs |-> files]
    ELSE [err |-> "",
          fs |-> files \cup {[name |-> prefix, mtime |-> t, size |-> data.len, armed |-> FALSE, dir |-> FALSE]}]

\* a save that turns away a buffer of exactly MaxFileSize bytes
SaveTempFileRejectsAtLimit(data, prefix, io, t, files) ==
    IF data.len >= MaxFileSize
    THEN [err |-> "ErrFileTooLarge", fs |-> files]
    ELSE IF io = "nofile"
    THEN [err |-> "write failed", fs |-> files]
    ELSE IF io = "partial"
    THEN [err |-> "write failed",
          fs |-> files \cup {[name |-> prefix, mtime |-> t, size |-> 0, armed |-> FALSE, dir |-> FALSE]}]
    ELSE IF DetectContentType(data) # "application/pdf"
    THEN [err |-> "ErrInvalidFileType", fs |-> files]
    ELSE [err |-> "",
          fs |-> files \cup {[name |-> prefix, mtime |-> t, size |-> data.len, armed |-> TRUE, dir |-> FALSE]}]

\* a save that leaves the file it has found not to be a PDF
SaveTempFileKeepsInvalid(data, prefix, io, t, files) ==
    IF data.len > MaxFileSize
    THEN [err |-> "ErrFileTooLarge", fs |-> files]
    ELSE IF io = "nofile"
    THEN [err |-> "write failed", fs |-> files]
    ELSE IF io = "partial"
    THEN [err |-> "write failed",
          fs |-> files \cup {[name |-> prefix, mtime |-> t, size |-> 0, armed |-> FALSE, dir |-> FALSE]}]
    ELSE IF DetectContentType(data) # "application/pdf"
    THEN [err |-> "ErrInvalidFileType",
          fs |-> files \cup {[name |-> prefix, mtime |-> t, size |-> data.len, armed |-> FALSE, dir |-> FALSE]}]
    ELSE [err |-> "",
          fs |-> files \cup {[name |-> prefix, mtime |-> t, size |-> data.len, armed |-> TRUE, dir |-> FALSE]}]

\* os.Remove(path): the file is removed, or the error is that it is not there
osRemove(files, path) ==
    IF \E f \in files : f.name = path
    THEN [err |-> "", fs |-> {f \in files : f.name # path}]
    ELSE [err |-> "ENOENT", fs |-> files]

\* SaveTempFile(data, prefix) at time t under write outcome io: the error it
\* returns ("" for none) and the files afterwards.  The file name carries a
\* fresh UUID: the file is new in the directory.  armed: a
\* scheduleFileDeletion goroutine sleeps on the file until mtime +
\* CleanupInterval.
\* A write that fails part-way leaves a prefix of the data (the model keeps
\* the empty one).  A buffer that is not sniffed as a PDF has been written
\* by then and is removed again.
SaveTempFile(data, prefix, io, t, files) ==
    IF data.len > MaxFileSize
    THEN [err |-> "ErrFileTooLarge", fs |-> files]
    ELSE IF io = "nofile"
    THEN [err |-> "write failed", fs |-> files]
    ELSE IF io = "partial"
    THEN [err |-> "write failed",
          fs |-> files \cup {[name |-> prefix, mtime |-> t, size |-> 0, armed |-> FALSE, dir |-> FALSE]}]
    ELSE IF DetectContentType(data) # "application/pdf"
    THEN [err |-> "ErrInvalidFileType",
          fs |-> osRemove(files \cup {[name |-> prefix, mtime |-> t,
                                       size |-> data.len, armed |-> FALSE, dir |-> FALSE]},
                          prefix).fs]
    ELSE [err |-> "",
          fs |-> files \cup {[name |-> prefix, mtime |-> t, size |-> data.len, armed |-> TRUE, dir |-> FALSE]}]

\* os.Remove of each path in names
RemoveAll(files, names) == {f \in files : f.name \notin names}

\* the names of the files present in the temp directory
FilesIn(files) == {f.name : f \in files}

\* saveOrderFiles: the loop over the files map, walked in the order ord, with
\* write outcomes ios; on the first error it removes the files saved so far
RECURSIVE saveLoop(_, _, _, _, _, _)
saveLoop(order, ord, ios, i, t, st) ==
    IF i > Len(ord) THEN st
    ELSE LET r == SaveTempFile(Content(order, ord[i]), ord[i], ios[ord[i]], t, st.fs)
         IN IF r.err # ""
            THEN [err |-> r.err, failed |-> ord[i], filePaths |-> {},
                  fs |-> RemoveAll(r.fs, st.filePaths)]
            ELSE saveLoop(order, ord, ios, i + 1, t,
                          [st EXCEPT !.filePaths = st.filePaths \cup {ord[i]},
                                     !.fs = r.fs])

saveOrderFiles(order, ord, ios, t, files) ==
    saveLoop(order, ord, ios, 1, t,
             [err |-> "", failed |-> "", filePaths |-> {}, fs |-> files])

\* the orders in which a map over the keys S can be walked
Walks(S) == {p \in [1..Cardinality(S) -> S] : \A i, j \in 1..Cardinality(S) : p[i] = p[j] => i = j}

\* PrepareAttachments: the files it could read; it fails when there is none
PrepareAttachments(filePaths, files) ==
    LET got == filePaths \cap FilesIn(files)
    IN [err |-> got = {}, attachments |-> got]

\* mail.ParseAddress on the contact strings the model uses
ParseAddressOk(s) == s \in {"ann@example.com"}

\* a send that dials the SMTP server before it looks at the recipient
SendOrderEmailDialsFirst(recipient, smtp) ==
    IF ~ParseAddressOk(recipient) THEN [dial |-> 1, err |-> "invalid recipient"]
    ELSE IF smtp = "ok" THEN [dial |-> 1, err |-> ""]
    ELSE [dial |-> 1, err |-> "SMTP send failed"]

\* SendOrderEmail under SMTP outcome smtp: whether it dialled, and its error
SendOrderEmail(recipient, smtp) ==
    IF ~ParseAddressOk(recipient) THEN [dial |-> 0, err |-> "invalid recipient"]
    ELSE IF smtp = "ok" THEN [dial |-> 1, err |-> ""]
    ELSE [dial |-> 1, err |-> "SMTP send failed"]

\* A text is given by the number of its characters of each kind: plain
\* one-byte characters, characters EscapeMarkdownV2 escapes, two-byte
\* characters, and (in a template) {full_name} placeholders.
NoText == [plain |-> 0, special |-> 0, wide |-> 0, names |-> 0]
ShortText == [plain |-> 100, special |-> 4, wide |-> 0, names |-> 1]
\* 4090 characters, ten of them to escape
EdgeText == [plain |-> 4080, special |-> 10, wide |-> 0, names |-> 0]
\* 4094 characters and a placeholder
NameEdgeText == [plain |-> 4094, special |-> 0, wide |-> 0, names |-> 1]
LongText == [plain |-> 5000, special |-> 0, wide |-> 0, names |-> 0]
\* 3096 characters, 3000 of them Cyrillic
CyrillicText == [plain |-> 96, special |-> 0, wide |-> 3000, names |-> 0]

\* the template text read into TelegramTemplates at startup
StartupText == ShortText

maxMessageLength == 4096

\* len(fmt.Sprintf("%v", value)) for the full names of the model
StrLen(v) == CASE v = "Ann" -> 3 [] OTHER -> 0

\* renderTemplate: every placeholder is replaced by the value of its key
renderTemplate(template, data) ==
    [plain |-> template.plain + template.names * StrLen(data.full_name),
     special |-> template.special, wide |-> template.wide, names |-> 0]

\* EscapeMarkdownV2: a backslash is put before every special character
EscapeMarkdownV2(text) ==
    [plain |-> text.plain + text.special, special |-> text.special,
     wide |-> text.wide, names |-> text.names]

\* len(message): the length in bytes
ByteLen(text) == text.plain + text.special + 2 * text.wide + 11 * text.names

\* the length in characters
CharLen(text) == text.plain + text.special + text.wide + 11 * text.names

\* what os.ReadFile of a template gives: an error, or the text of the file
ReadFailed == [ok |-> FALSE, text |-> NoText]
ReadOf(text) == [ok |-> TRUE, text |-> text]

\* getLocalizedTemplate: disk is what reading the template file gives
getLocalizedTemplate(svc, lang, disk) ==
    LET l == IF lang \in svc.TelegramTemplates THEN lang
             ELSE IF Len(svc.SupportedLangs) = 0 THEN ""
             ELSE svc.SupportedLangs[1]
    IN IF lang \notin svc.TelegramTemplates /\ Len(svc.SupportedLangs) = 0
       THEN [err |-> "ErrInvalidTemplate", text |-> NoText, lang |-> lang]
       ELSE IF l \in DOMAIN svc.TelegramTemplatePaths /\ svc.TelegramTemplatePaths[l] # ""
       THEN IF ~disk.ok
            THEN [err |-> "failed to load", text |-> NoText, lang |-> l]
            ELSE [err |-> "", text |-> disk.text, lang |-> l]
       ELSE IF l \notin svc.TelegramTemplates
       THEN [err |-> "ErrInvalidTemplate", text |-> NoText, lang |-> l]
       ELSE [err |-> "", text |-> StartupText, lang |-> l]

\* a send that is tried again when the bot API fails
SendTelegramNotificationRetries(svc, lang, data, disk, api) ==
    IF ~TelegramConfigured(svc.Telegram)
    THEN [err |-> "ErrTelegramNotConfigured", loads |-> 0, calls |-> 0, sent |-> NoText]
    ELSE LET t == getLocalizedTemplate(svc, lang, disk)
             message == EscapeMarkdownV2(renderTemplate(t.text, data))
         IN IF t.err # ""
            THEN [err |-> "template error", loads |-> 1, calls |-> 0, sent |-> NoText]
            ELSE IF ByteLen(message) > maxMessageLength
            THEN [err |-> "ErrMessageTooLong", loads |-> 1, calls |-> 0, sent |-> NoText]
            ELSE IF api = "ok"
            THEN [err |-> "", loads |-> 1, calls |-> 1, sent |-> message]
            ELSE [err |-> "send failed", loads |-> 1, calls |-> 2, sent |-> message]

\* a send that checks the length of the text before it is escaped
SendTelegramNotificationChecksRaw(svc, lang, data, disk, api) ==
    IF ~TelegramConfigured(svc.Telegram)
    THEN [err |-> "ErrTelegramNotConfigured", loads |-> 0, calls |-> 0, sent |-> NoText]
    ELSE LET t == getLocalizedTemplate(svc, lang, disk)
             message == renderTemplate(t.text, data)
         IN IF t.err # ""
            THEN [err |-> "template error", loads |-> 1, calls |-> 0, sent |-> NoText]
            ELSE IF ByteLen(message) > maxMessageLength
            THEN [err |-> "ErrMessageTooLong", loads |-> 1, calls |-> 0, sent |-> NoText]
            ELSE IF api = "ok"
            THEN [err |-> "", loads |-> 1, calls |-> 1, sent |-> EscapeMarkdownV2(message)]
            ELSE [err |-> "send failed", loads |-> 1, calls |-> 1,
                  sent |-> EscapeMarkdownV2(message)]

\* SendTelegramNotification under template read outcome disk and API outcome
\* api: its error, the number of template loads and of calls to the bot API
\* it made, and the text it sent
SendTelegramNotification(svc, lang, data, disk, api) ==
    IF ~TelegramConfigured(svc.Telegram)
    THEN [err |-> "ErrTelegramNotConfigured", loads |-> 0, calls |-> 0, sent |-> NoText]
    ELSE LET t == getLocalizedTemplate(svc, lang, disk)
             message == EscapeMarkdownV2(renderTemplate(t.text, data))
         IN IF t.err # ""
            THEN [err |-> "template error", loads |-> 1, calls |-> 0, sent |-> NoText]
            ELSE IF ByteLen(message) > maxMessageLength
            THEN [err |-> "ErrMessageTooLong", loads |-> 1, calls |-> 0, sent |-> NoText]
            ELSE IF api = "ok"
            THEN [err |-> "", loads |-> 1, calls |-> 1, sent |-> message]
            ELSE [err |-> "send failed", loads |-> 1, calls |-> 1, sent |-> message]

(***************************************************************************)
(* Inputs                                                                  *)
(***************************************************************************)
Orders ==
    [decodeOk : BOOLEAN,
     FullName : {"", "Ann"},
     ContactInfo : {"ann@example.com", "+1 555 0100"},
     PaymentMethod : {"card"},
     Language : {"", "ru", "fr"},
     BriefFile : {NoBytes, GoodPdf, GifFile},
     SpecificationPdf : {GoodPdf, BigPdf, GifFile},
     InvoicePdf : {GoodPdf, NoDashPdf},
     ContractPdf : {GoodPdf}]

Headers == [XServiceName : {"", "ACME", "beta", "ghost"}, AcceptLanguage : {""}]

\* the durations the sweep is run with
SweepAges == {0, CleanupInterval}

\* the registry as LoadServices left it, no call made on it yet
Loaded(env) == [op |-> "load", env |-> env]

\* the names asked of the registry and the language codes asked for
ServiceNames == {"", "Acme", "ACME", "acme", " ACME", "ACM", "beta", "Gamma", "GAMMA", "ghost"}
LangCodes == {"", "en", "ru", "RU", "fr"}

IdleFrame ==
    [pc |-> "idle", order |-> << >>, hdr |-> << >>, lang |-> "",
     filePaths |-> {}, subject |-> "", body |-> "",
     attachments |-> {}, emailCalls |-> 0, smtpDials |-> 0, emailErr |-> "",
     chatCalls |-> 0, apiCalls |-> 0, chatErr |-> "", chatLang |-> "",
     dbCalls |-> 0,
     dbErr |-> FALSE, saveErr |-> "", failed |-> "", code |-> 0, msg |-> "",
     status |-> "", respLang |-> ""]

(***************************************************************************)
(* Actions of the order pipeline (one order request per behaviour)         *)
(***************************************************************************)
\* a request arrives; the handler runs up to saveOrderFiles
\* a handler that reads the registry anew from an environment that has changed
ReceiveReloads(o, hd) ==
    /\ h.pc = "idle"
    /\ LET r == Intake(services, o, hd)
       IN h' = IF r.code # 0
               THEN [IdleFrame EXCEPT !.pc = "done", !.order = o, !.hdr = hd,
                                      !.code = r.code, !.msg = r.msg]
               ELSE [IdleFrame EXCEPT !.pc = "save", !.order = o, !.hdr = hd,
                                      !.lang = r.lang]
    /\ services' = LoadServices(EnvironSameName)
    /\ UNCHANGED <<now, fs, rows, rlVars, win, call, pending, migrations>>

Receive(o, hd) ==
    /\ h.pc = "idle"
    /\ LET r == Intake(services, o, hd)
       IN h' = IF r.code # 0
               THEN [IdleFrame EXCEPT !.pc = "done", !.order = o, !.hdr = hd,
                                      !.code = r.code, !.msg = r.msg]
               ELSE [IdleFrame EXCEPT !.pc = "save", !.order = o, !.hdr = hd,
                                      !.lang = r.lang]
    /\ UNCHANGED <<services, now, fs, rows, rlVars, win, call, pending, migrations>>

\* saveOrderFiles; if it fails the handler answers 500 and returns
SaveFiles ==
    /\ h.pc = "save"
    /\ \E ord \in Walks(FilesOf(h.order)), ios \in [FilesOf(h.order) -> WriteOutcomes] :
       LET r == saveOrderFiles(h.order, ord, ios, now, fs)
       IN /\ fs' = r.fs
          /\ h' = IF r.err # ""
                  THEN [h EXCEPT !.pc = "done", !.saveErr = r.err, !.failed = r.failed,
                                 !.code = 500, !.msg = "Failed to save files"]
                  ELSE [h EXCEPT !.pc = "render", !.filePaths = r.filePaths]
    /\ UNCHANGED <<services, now, rows, rlVars, win, call, pending, migrations>>

\* the subject and body templates: a configured path that can be read gives
\* the filled template, anything else leaves the built-in text
RenderPart(paths, lang, readable, builtin) ==
    IF lang \in DOMAIN paths /\ paths[lang] # "" /\ readable
    THEN paths[lang] ELSE builtin

Render(subjectReadable, bodyReadable) ==
    /\ h.pc = "render"
    /\ LET svc == GetService(services, h.hdr.XServiceName).svc
       IN h' = [h EXCEPT
                 !.pc = "email",
                 !.subject = RenderPart(svc.EmailTemplateSubjectPaths, h.lang,
                                        subjectReadable, "Order Confirmation"),
                 !.body = RenderPart(svc.EmailTemplateBodyPaths, h.lang,
                                     bodyReadable, "Order received")]
    /\ UNCHANGED <<services, now, fs, rows, rlVars, win, call, pending, migrations>>

\* a dispatch that gives up the request when the email cannot be sent
DispatchEmailFatal(smtp) ==
    /\ h.pc = "email"
    /\ LET a == PrepareAttachments(h.filePaths, fs)
           e == SendOrderEmail(h.order.ContactInfo, smtp)
       IN h' = IF a.err
               THEN [h EXCEPT !.pc = "chat", !.emailErr = "no valid attachments found"]
               ELSE IF e.err # ""
               THEN [h EXCEPT !.pc = "cleanup", !.attachments = a.attachments,
                              !.emailCalls = h.emailCalls + 1,
                              !.smtpDials = h.smtpDials + e.dial,
                              !.emailErr = e.err, !.code = 500,
                              !.msg = "Failed to send email"]
               ELSE [h EXCEPT !.pc = "chat", !.attachments = a.attachments,
                              !.emailCalls = h.emailCalls + 1,
                              !.smtpDials = h.smtpDials + e.dial,
                              !.emailErr = e.err]
    /\ UNCHANGED <<services, now, fs, rows, rlVars, win, call, pending, migrations>>

\* PrepareAttachments and, if it gave attachments, SendOrderEmail
DispatchEmail(smtp) ==
    /\ h.pc = "email"
    /\ LET a == PrepareAttachments(h.filePaths, fs)
           e == SendOrderEmail(h.order.ContactInfo, smtp)
       IN h' = IF a.err
               THEN [h EXCEPT !.pc = "chat", !.emailErr = "no valid attachments found"]
               ELSE [h EXCEPT !.pc = "chat", !.attachments = a.attachments,
                              !.emailCalls = h.emailCalls + 1,
                              !.smtpDials = h.smtpDials + e.dial,
                              !.emailErr = e.err]
    /\ UNCHANGED <<services, now, fs, rows, rlVars, win, call, pending, migrations>>

\* a dispatch that notifies the chat only after an email without error
DispatchChatAfterEmail(disk, api) ==
    /\ h.pc = "chat"
    /\ LET svc == GetService(services, h.hdr.XServiceName).svc
           r == SendTelegramNotification(svc, h.lang, [full_name |-> h.order.FullName], disk, api)
       IN h' = IF h.emailErr # ""
               THEN [h EXCEPT !.pc = "log"]
               ELSE [h EXCEPT !.pc = "log", !.chatCalls = h.chatCalls + 1,
                              !.apiCalls = h.apiCalls + r.calls, !.chatErr = r.err,
                              !.chatLang = IF r.calls > 0
                                           THEN getLocalizedTemplate(svc, h.lang, disk).lang
                                           ELSE ""]
    /\ UNCHANGED <<services, now, fs, rows, rlVars, win, call, pending, migrations>>

\* SendTelegramNotification, its error discarded; chatLang is the language of
\* the template the text handed to the bot API was rendered from
DispatchChat(disk, api) ==
    /\ h.pc = "chat"
    /\ LET svc == GetService(services, h.hdr.XServiceName).svc
           r == SendTelegramNotification(svc, h.lang, [full_name |-> h.order.FullName], disk, api)
       IN h' = [h EXCEPT !.pc = "log", !.chatCalls = h.chatCalls + 1,
                         !.apiCalls = h.apiCalls + r.calls, !.chatErr = r.err,
                         !.chatLang = IF r.calls > 0
                                      THEN getLocalizedTemplate(svc, h.lang, disk).lang
                                      ELSE ""]
    /\ UNCHANGED <<services, now, fs, rows, rlVars, win, call, pending, migrations>>

\* the columns of project_orders in migrations/2025070401_init.sql, id apart
ProjectOrdersColumns ==
    {"service_name", "full_name", "company_name", "contact_info", "project_link",
     "payment_method", "start_date", "languages", "ip_address", "user_agent",
     "created_at"}

\* the columns named by the INSERT of logOrderToDB
LogOrderColumns ==
    {"service_name", "full_name", "company_name", "contact_info", "project_link",
     "payment_method", "start_date", "language", "ip_address", "user_agent",
     "created_at"}

\* logOrderToDB: the row it inserts (the lang argument is not used; whether
\* the database takes the INSERT is an outcome of the step that runs it)
OrderRow(serviceName, lang, order) ==
    [table |-> "project_orders",
     service_name |-> serviceName, full_name |-> order.FullName,
     contact_info |-> order.ContactInfo, language |-> order.Language]

\* the status the handler answers with once logOrderToDB has returned
\* (dbFailed: it returned an error, which the handler discards)
AfterLog(dbFailed) == 200

\* a logger that keeps one row per tenant, overwriting the one it finds
LogOrderUpsert(dbOk) ==
    /\ h.pc = "log"
    /\ rows' = IF ~dbOk THEN rows
               ELSE IF \E i \in DOMAIN rows : rows[i].table = "project_orders"
               THEN [i \in DOMAIN rows |->
                        IF rows[i].table = "project_orders"
                        THEN [rows[i] EXCEPT !.service_name = h.hdr.XServiceName,
                                             !.language = h.lang]
                        ELSE rows[i]]
               ELSE Append(rows, [table |-> "project_orders",
                                  service_name |-> h.hdr.XServiceName,
                                  full_name |-> h.order.FullName,
                                  contact_info |-> h.order.ContactInfo,
                                  language |-> h.order.Language])
    /\ h' = [h EXCEPT !.pc = "cleanup", !.dbCalls = h.dbCalls + 1,
                      !.dbErr = ~dbOk, !.code = 200, !.status = "success",
                      !.respLang = h.lang]
    /\ UNCHANGED <<services, now, fs, rlVars, win, call, pending, migrations>>

\* logOrderToDB, then the response
LogOrder(dbOk) ==
    /\ h.pc = "log"
    /\ rows' = IF dbOk
               THEN Append(rows, OrderRow(h.hdr.XServiceName, h.lang, h.order))
               ELSE rows
    /\ h' = [h EXCEPT !.pc = "cleanup", !.dbCalls = h.dbCalls + 1,
                      !.dbErr = ~dbOk, !.code = AfterLog(~dbOk),
                      !.status = IF AfterLog(~dbOk) = 200 THEN "success" ELSE "",
                      !.respLang = h.lang]
    /\ UNCHANGED <<services, now, fs, rlVars, win, call, pending, migrations>>

\* a handler that returns without the deferred cleanup
CleanupForgotten ==
    /\ h.pc = "cleanup"
    /\ h' = [h EXCEPT !.pc = "done"]
    /\ UNCHANGED <<services, now, fs, rows, rlVars, win, call, pending, migrations>>

\* the deferred cleanupFiles, run as the handler returns
Cleanup ==
    /\ h.pc = "cleanup"
    /\ fs' = RemoveAll(fs, h.filePaths)
    /\ h' = [h EXCEPT !.pc = "done"]
    /\ UNCHANGED <<services, now, rows, rlVars, win, call, pending, migrations>>

(***************************************************************************)
(* Background tasks on the temp directory                                  *)
(***************************************************************************)
Tick ==
    /\ now < MaxTime
    /\ now' = now + 1
    /\ UNCHANGED <<services, fs, rows, h, rlVars, win, call, pending, migrations>>

\* scheduleFileDeletion waking up CleanupInterval after the save and removing
\* its file.  (When the file is already gone its os.Remove changes nothing:
\* that step leaves every variable as it is.)
TimerFire(f) ==
    /\ f \in fs
    /\ f.armed
    /\ now >= f.mtime + CleanupInterval
    /\ fs' = RemoveAll(fs, {f.name})
    /\ UNCHANGED <<services, now, rows, h, rlVars, win, call, pending, migrations>>

\* what can go wrong with the entries of a sweep: those whose Info cannot be
\* read and those the file system refuses to remove
NoTrouble == [noinfo |-> {}, noremove |-> {}]

\* a sweep that gives up at the first entry it cannot read or remove
CleanOldFilesStopsAtError(entries, t, olderThan, trouble) ==
    IF \E e \in entries : ~e.dir /\ e.name \in trouble.noinfo \cup trouble.noremove
    THEN [err |-> "failed to remove", fs |-> entries, logged |-> {}]
    ELSE [err |-> "",
          fs |-> {e \in entries : e.dir \/ ~(t - e.mtime > olderThan)},
          logged |-> {}]

\* CleanOldFiles(dir, olderThan) at time t over the entries ReadDir gives:
\* directories and entries without Info are passed over, an entry older than
\* olderThan is removed, a removal that fails is logged, and nil is returned
CleanOldFiles(entries, t, olderThan, trouble) ==
    [err |-> "",
     fs |-> {e \in entries :
                \/ e.dir
                \/ e.name \in trouble.noinfo
                \/ ~(t - e.mtime > olderThan)
                \/ e.name \in trouble.noremove},
     logged |-> {e.name : e \in {x \in entries :
                    /\ ~x.dir /\ x.name \notin trouble.noinfo
                    /\ t - x.mtime > olderThan /\ x.name \in trouble.noremove}}]

Sweep(olderThan) ==
    /\ fs' = CleanOldFiles(fs, now, olderThan, NoTrouble).fs
    /\ UNCHANGED <<services, now, rows, h, rlVars, win, call, pending, migrations>>

(***************************************************************************)
(* The file store run on its own: saves, and the three deleters of a file  *)
(***************************************************************************)
\* a timer that gives up when the file it was to remove is gone
scheduleFileDeletionStrict(files, path) ==
    [fs |-> osRemove(files, path).fs, err |-> osRemove(files, path).err,
     logged |-> osRemove(files, path).err # "",
     failed |-> osRemove(files, path).err # ""]

\* scheduleFileDeletion once its sleep is over: os.Remove, and a log line
\* unless the error is that the file does not exist
scheduleFileDeletion(files, path) ==
    [fs |-> osRemove(files, path).fs, err |-> osRemove(files, path).err,
     logged |-> osRemove(files, path).err \notin {"", "ENOENT"},
     failed |-> FALSE]

\* cleanupFiles: os.Remove of each path, the errors discarded
cleanupFiles(files, paths) ==
    [fs |-> RemoveAll(files, paths),
     err |-> IF paths \subseteq FilesIn(files) THEN "" ELSE "ENOENT",
     logged |-> FALSE, failed |-> FALSE]

\* CleanOldFiles on one entry it has listed and found old: os.Remove, a log
\* line on any error, and the loop goes on
removeListed(files, path) ==
    [fs |-> osRemove(files, path).fs, err |-> osRemove(files, path).err,
     logged |-> osRemove(files, path).err # "", failed |-> FALSE]

\* the buffers handed to the store and the names (prefix and UUID) it gives
Buffers == {GoodPdf, ExactPdf, BigPdf, NoDashPdf, ShortPdf, GifFile, NoBytes}
FileNames == {"brief_1f0e", "invoice_9c2a"}

Timer(name, due) == [kind |-> "timer", name |-> name, due |-> due]
Deferred(name) == [kind |-> "cleanup", name |-> name, due |-> 0]
Listed(name) == [kind |-> "sweep", name |-> name, due |-> 0]

\* SaveTempFile(data, prefix) called by a request, which defers the cleanup
\* of the file when the save succeeds
StoreSave(data, name, io) ==
    /\ name \notin FilesIn(fs) \cup {p.name : p \in pending}
    /\ now + CleanupInterval <= MaxTime
    /\ LET r == SaveTempFile(data, name, io, now, fs)
           armed == {Timer(f.name, f.mtime + CleanupInterval) : f \in {x \in r.fs \ fs : x.armed}}
       IN /\ fs' = r.fs
          /\ pending' = pending \cup armed
                          \cup (IF r.err = "" THEN {Deferred(name)} ELSE {})
          /\ call' = [op |-> "save", data |-> data, name |-> name, io |-> io,
                      err |-> r.err, before |-> fs, after |-> r.fs,
                      armed |-> armed, at |-> now]
    /\ UNCHANGED <<services, now, rows, h, rlVars, win, migrations>>

\* one of the pending deletions makes its attempt
StoreDelete(p) ==
    /\ p \in pending
    /\ p.kind = "timer" => now >= p.due
    /\ LET r == CASE p.kind = "timer" -> scheduleFileDeletion(fs, p.name)
                  [] p.kind = "cleanup" -> cleanupFiles(fs, {p.name})
                  [] OTHER -> removeListed(fs, p.name)
       IN /\ fs' = r.fs
          /\ call' = [op |-> "remove", kind |-> p.kind, name |-> p.name,
                      due |-> p.due, err |-> r.err, logged |-> r.logged,
                      failed |-> r.failed, before |-> fs, after |-> r.fs,
                      at |-> now]
    /\ pending' = pending \ {p}
    /\ UNCHANGED <<services, now, rows, h, rlVars, win, migrations>>

\* CleanOldFiles reads the directory and the age of each entry; the removals
\* follow one by one
StoreSweepList(olderThan) ==
    /\ \E f \in fs : now - f.mtime > olderThan /\ Listed(f.name) \notin pending
    /\ pending' = pending \cup {Listed(f.name) : f \in {x \in fs : now - x.mtime > olderThan}}
    /\ UNCHANGED <<services, now, fs, rows, h, rlVars, win, call, migrations>>

\* something other than the store leaves a sub-directory in the directory
StoreMkdir ==
    /\ "archive" \notin FilesIn(fs)
    /\ fs' = fs \cup {[name |-> "archive", mtime |-> now, size |-> 0,
                        armed |-> FALSE, dir |-> TRUE]}
    /\ UNCHANGED <<services, now, rows, h, rlVars, win, call, pending, migrations>>

\* the troubles a sweep can meet
Troubles ==
    { NoTrouble,
      [noinfo |-> {"brief_1f0e"}, noremove |-> {}],
      [noinfo |-> {}, noremove |-> {"invoice_9c2a"}] }

\* CleanOldFiles(dir, olderThan) run in one go
StoreSweep(olderThan, trouble) ==
    /\ fs # {}
    /\ LET r == CleanOldFiles(fs, now, olderThan, trouble)
       IN /\ fs' = r.fs
          /\ call' = [op |-> "sweep", olderThan |-> olderThan, trouble |-> trouble,
                      err |-> r.err, logged |-> r.logged, before |-> fs,
                      after |-> r.fs, at |-> now]
    /\ UNCHANGED <<services, now, rows, h, rlVars, win, pending, migrations>>

\* ValidatePDF(data)
StoreValidate(data) ==
    /\ call' = [op |-> "validate", data |-> data, res |-> ValidatePDF(data)]
    /\ UNCHANGED <<pipeVars, rlVars, win, pending, migrations>>

(***************************************************************************)
(* IPWhitelistMiddleware and GetRealIP                                     *)
(***************************************************************************)
\* the requests, by the headers and the peer address GetRealIP looks at
Requests ==
    { [xff |-> "", realip |-> "", remote |-> "10.0.0.1:51034"],
      [xff |-> "", realip |-> "203.0.113.9", remote |-> "10.0.0.1:51034"],
      [xff |-> " 192.168.1.5 , 10.0.0.1", realip |-> "", remote |-> "10.0.0.2:40000"],
      [xff |-> "not-an-ip", realip |-> "", remote |-> "203.0.113.9:443"] }

\* strings.TrimSpace(strings.Split(ip, ",")[0])
FirstOfList(xff) ==
    CASE xff = " 192.168.1.5 , 10.0.0.1" -> "192.168.1.5"
      [] OTHER -> xff

\* net.SplitHostPort(r.RemoteAddr), the host
HostOf(remote) ==
    CASE remote = "10.0.0.1:51034" -> "10.0.0.1"
      [] remote = "10.0.0.2:40000" -> "10.0.0.2"
      [] remote = "203.0.113.9:443" -> "203.0.113.9"
      [] OTHER -> ""

GetRealIP(r) ==
    IF r.xff # "" THEN FirstOfList(r.xff)
    ELSE IF r.realip # "" THEN r.realip
    ELSE HostOf(r.remote)

\* net.ParseIP: the bytes of the address, nil (no bytes) for a string that
\* is not an address
ParseIP(str) ==
    CASE str = "10.0.0.1" -> <<10, 0, 0, 1>>
      [] str = "10.0.0.2" -> <<10, 0, 0, 2>>
      [] str = "192.168.1.5" -> <<192, 168, 1, 5>>
      [] str = "203.0.113.9" -> <<203, 0, 113, 9>>
      [] OTHER -> << >>

\* net.ParseCIDR
ParseCIDR(str) ==
    CASE str = "10.0.0.0/8" -> [ok |-> TRUE, ip |-> <<10, 0, 0, 0>>, ones |-> 8]
      [] str = "192.168.1.0/24" -> [ok |-> TRUE, ip |-> <<192, 168, 1, 0>>, ones |-> 24]
      [] OTHER -> [ok |-> FALSE, ip |-> << >>, ones |-> 0]

\* (*IPNet).Contains: an address of another length than the network's is
\* not contained
SubnetContains(subnet, ip) ==
    /\ Len(ip) = Len(subnet.ip)
    /\ \A i \in 1..(subnet.ones \div 8) : ip[i] = subnet.ip[i]

\* IP.Equal: byte slices of the same length are compared byte by byte (two
\* nil addresses have the same length and no byte that differs)
IPEqual(a, b) == Len(a) = Len(b) /\ a = b

\* the values of ALLOWED_IPS, split at the commas
AllowLists ==
    { <<"*">>, <<"10.0.0.0/8">>, <<"192.168.1.5">>, <<"">>,
      <<"192.168.1.0/24", " 10.0.0.1">>, <<"203.0.113.9", "10.0.0.0/8">> }

\* IPWhitelistMiddleware: "next" when the request is handed to next.ServeHTTP
IPWhitelistMiddleware(allowedIPs, r) ==
    IF \E i \in DOMAIN allowedIPs :
          \/ allowedIPs[i] = "*"
          \/ /\ ParseCIDR(allowedIPs[i]).ok
             /\ SubnetContains(ParseCIDR(allowedIPs[i]), ParseIP(GetRealIP(r)))
          \/ /\ ~ParseCIDR(allowedIPs[i]).ok
             /\ IPEqual(ParseIP(allowedIPs[i]), ParseIP(GetRealIP(r)))
    THEN "next" ELSE "403"

(***************************************************************************)
(* RateLimitMiddleware                                                     *)
(***************************************************************************)
\* rate.NewLimiter(rate.Every(time.Minute/10), 10): the burst; one token is
\* added every six seconds
Burst == 10

ClientIPs == {"10.0.0.1", "10.0.0.2"}
Slots == 1..MaxInflight
NoRequest == [xff |-> "", realip |-> "", remote |-> ""]
\* csrf, wl: what the CSRF check and the IP whitelist said of the request
\* ("" where the request is taken up at the rate limiter)
FreeSlot == [pc |-> "none", ip |-> "", need |-> 0, r |-> NoRequest,
             csrf |-> "", wl |-> ""]

\* the limiter object a client IP is given when it is first seen: the one
\* limiter made when the middleware was built
LimiterFor(ip) == "limiter"

\* rate.Every(time.Minute/10): the refills that fall into one minute
WindowTicks == 10

\* the observed minute before it starts
NoWindow == [phase |-> "before", ip |-> "", ticks |-> 0, passed |-> 0]

\* a request of client ip is passed on to next.ServeHTTP
Passed(w, ip) ==
    IF w.phase = "open" /\ w.ip = ip THEN [w EXCEPT !.passed = w.passed + 1] ELSE w

\* a refill falls into the observed minute; the minute is over with the
\* refill after the last one that fits into it
Ticked(w) ==
    IF w.phase # "open" THEN w
    ELSE IF w.ticks = WindowTicks THEN [NoWindow EXCEPT !.phase = "after"]
    ELSE [w EXCEPT !.ticks = w.ticks + 1]

\* the client whose requests are counted (the clients are interchangeable)
ObservedIP == CHOOSE ip \in ClientIPs : TRUE

\* a minute starts in which the requests of client ip are counted
RLOpenWindow(ip) ==
    /\ win.phase = "before"
    /\ win' = [NoWindow EXCEPT !.phase = "open", !.ip = ip]
    /\ UNCHANGED <<pipeVars, rlVars, call, pending, migrations>>

\* GetRealIP, then the handler is entered
RLArrive(s, ip) ==
    /\ rl[s].pc = "none"
    /\ rl' = [rl EXCEPT ![s] = [FreeSlot EXCEPT !.pc = "lookup", !.ip = ip]]
    /\ UNCHANGED <<pipeVars, limiters, tokens, win, call, pending, migrations>>

\* the map lookup under the mutex
RLLookup(s) ==
    /\ rl[s].pc = "lookup"
    /\ limiters' = IF rl[s].ip \in DOMAIN limiters THEN limiters
                   ELSE [i \in DOMAIN limiters \cup {rl[s].ip} |->
                           IF i = rl[s].ip THEN LimiterFor(i) ELSE limiters[i]]
    /\ tokens' = IF LimiterFor(rl[s].ip) \in DOMAIN tokens
                    \/ rl[s].ip \in DOMAIN limiters
                 THEN tokens
                 ELSE [l \in DOMAIN tokens \cup {LimiterFor(rl[s].ip)} |->
                         IF l \in DOMAIN tokens THEN tokens[l] ELSE Burst]
    /\ rl' = [rl EXCEPT ![s].pc = "wait"]
    /\ UNCHANGED <<pipeVars, win, call, pending, migrations>>

\* a Wait that never holds a request back
RLWaitNeverHolds(s) ==
    /\ rl[s].pc = "wait"
    /\ 1 - tokens[limiters[rl[s].ip]] <= MaxWait
    /\ LET l == limiters[rl[s].ip]
       IN /\ tokens' = [tokens EXCEPT ![l] = tokens[l] - 1]
          /\ rl' = [rl EXCEPT ![s].pc = "served"]
          /\ win' = Passed(win, rl[s].ip)
    /\ UNCHANGED <<pipeVars, limiters, call, pending, migrations>>

\* a refill that does not bring the token of a sleeping Wait any nearer
RLRefillWakesNobody ==
    /\ \A s \in Slots : ~(rl[s].pc = "waiting" /\ rl[s].need = 0)
    /\ tokens' = [l \in DOMAIN tokens |-> IF tokens[l] < Burst THEN tokens[l] + 1 ELSE Burst]
    /\ win' = Ticked(win)
    /\ UNCHANGED <<pipeVars, limiters, rl, call, pending, migrations>>

\* l.Wait(ctx): the reservation.  With a token in the bucket the request goes
\* on to next.ServeHTTP at once; otherwise it reserves the next token (the
\* count goes below zero) and sleeps until that token is due
RLWait(s) ==
    /\ rl[s].pc = "wait"
    /\ 1 - tokens[limiters[rl[s].ip]] <= MaxWait
    /\ LET l == limiters[rl[s].ip]
       IN /\ tokens' = [tokens EXCEPT ![l] = tokens[l] - 1]
          /\ rl' = IF tokens[l] >= 1
                   THEN [rl EXCEPT ![s].pc = "served"]
                   ELSE [rl EXCEPT ![s].pc = "waiting", ![s].need = 1 - tokens[l]]
          /\ win' = IF tokens[l] >= 1 THEN Passed(win, rl[s].ip) ELSE win
    /\ UNCHANGED <<pipeVars, limiters, call, pending, migrations>>

\* l.Wait(ctx) with a context that is already done: the error, no reservation
RLCtxDoneEarly(s) ==
    /\ rl[s].pc = "wait"
    /\ rl' = [rl EXCEPT ![s].pc = "rejected"]
    /\ UNCHANGED <<pipeVars, limiters, tokens, win, call, pending, migrations>>

\* six seconds pass: every bucket gains a token, up to the burst.  The timer
\* of a sleeping Wait fires when its token is due: time does not go on past a
\* request whose token is due and that has neither woken nor been cancelled
RLRefill ==
    /\ \A s \in Slots : ~(rl[s].pc = "waiting" /\ rl[s].need = 0)
    /\ tokens' = [l \in DOMAIN tokens |-> IF tokens[l] < Burst THEN tokens[l] + 1 ELSE Burst]
    /\ rl' = [s \in Slots |->
                IF rl[s].pc = "waiting" /\ rl[s].need > 0
                THEN [rl[s] EXCEPT !.need = rl[s].need - 1] ELSE rl[s]]
    /\ win' = Ticked(win)
    /\ UNCHANGED <<pipeVars, limiters, call, pending, migrations>>

\* the reserved token is due: Wait returns nil, next.ServeHTTP runs
RLWake(s) ==
    /\ rl[s].pc = "waiting"
    /\ rl[s].need = 0
    /\ rl' = [rl EXCEPT ![s].pc = "served"]
    /\ win' = Passed(win, rl[s].ip)
    /\ UNCHANGED <<pipeVars, limiters, tokens, call, pending, migrations>>

\* the context is done while Wait sleeps: the reservation is cancelled (its
\* token is given back unless a later reservation was made on it) and the
\* request is answered 429
RLCancel(s) ==
    /\ rl[s].pc = "waiting"
    /\ LET l == limiters[rl[s].ip]
           later == \E o \in Slots \ {s} :
                       /\ rl[o].pc = "waiting"
                       /\ limiters[rl[o].ip] = l
                       /\ rl[o].need > rl[s].need
       IN tokens' = [tokens EXCEPT ![l] = IF later THEN tokens[l] ELSE tokens[l] + 1]
    /\ rl' = [rl EXCEPT ![s].pc = "rejected"]
    /\ UNCHANGED <<pipeVars, limiters, win, call, pending, migrations>>

\* the request leaves the middleware
RLDone(s) ==
    /\ rl[s].pc \in {"served", "rejected"}
    /\ rl' = [rl EXCEPT ![s] = FreeSlot]
    /\ UNCHANGED <<pipeVars, limiters, tokens, win, call, pending, migrations>>

(***************************************************************************)
(* applyMigrations (main.go, package db)                                   *)
(***************************************************************************)
\* the entries /app/migrations can hold
DirEntries == {"2025070401_init.sql", "2025080101_index.sql",
               "2025090101_consent_lang.sql", "notes.md"}

\* filepath.Ext
Ext(name) == IF name = "notes.md" THEN ".md" ELSE ".sql"

\* the place of a name in the byte-wise order of strings
Rank(name) ==
    CASE name = "2025070401_init.sql" -> 1
      [] name = "2025080101_index.sql" -> 2
      [] name = "2025090101_consent_lang.sql" -> 3
      [] OTHER -> 4

\* sort.Strings
RECURSIVE SortStrings(_)
SortStrings(S) ==
    IF S = {} THEN << >>
    ELSE LET m == CHOOSE x \in S : \A y \in S : Rank(x) <= Rank(y)
         IN <<m>> \o SortStrings(S \ {m})

\* a run that commits each script and its record as soon as it has run
RECURSIVE applyLoopAutocommit(_, _, _, _)
applyLoopAutocommit(files, table, fail, st) ==
    IF files = << >> THEN st
    ELSE IF Head(files) \in Range(table)
    THEN applyLoopAutocommit(Tail(files), table, fail, st)
    ELSE IF Head(files) = fail
    THEN [st EXCEPT !.err = "failed to apply migration", !.committed = st.tx]
    ELSE applyLoopAutocommit(Tail(files), table, fail,
                   [st EXCEPT !.ran = Append(st.ran, Head(files)),
                              !.tx = Append(st.tx, Head(files))])

\* the loop over the sorted script names inside the transaction: a name in
\* the applied set is skipped, any other script is executed and recorded;
\* the first error ends the run and the deferred Rollback drops what the
\* transaction holds
RECURSIVE applyLoop(_, _, _, _)
applyLoop(files, table, fail, st) ==
    IF files = << >> THEN st
    ELSE IF Head(files) \in Range(table)
    THEN applyLoop(Tail(files), table, fail, st)
    ELSE IF Head(files) = fail
    THEN [st EXCEPT !.err = "failed to apply migration", !.committed = table]
    ELSE applyLoop(Tail(files), table, fail,
                   [st EXCEPT !.ran = Append(st.ran, Head(files)),
                              !.tx = Append(st.tx, Head(files))])

\* applyMigrations over the directory entries and the migrations table;
\* fail names the script whose SQL the database refuses, or "commit", or ""
applyMigrations(entries, table, fail) ==
    LET st == applyLoop(SortStrings({e \in entries : Ext(e) = ".sql"}), table, fail,
                        [err |-> "", ran |-> << >>, tx |-> table, committed |-> table])
    IN IF st.err # "" THEN st
       ELSE IF fail = "commit"
       THEN [st EXCEPT !.err = "failed to commit migrations", !.committed = table]
       ELSE [st EXCEPT !.committed = st.tx]

\* a start of the process: InitDB runs applyMigrations
Start(entries, fail) ==
    /\ LET r == applyMigrations(entries, migrations, fail)
       IN /\ migrations' = r.committed
          /\ call' = [op |-> "migrate", entries |-> entries, fail |-> fail,
                      err |-> r.err, ran |-> r.ran,
                      before |-> migrations, after |-> r.committed]
    /\ UNCHANGED <<pipeVars, rlVars, win, pending>>

(***************************************************************************)
(* The middlewares of /api/v1 in the order createRouter installs them      *)
(***************************************************************************)
\* ALLOWED_IPS of the server the chain is run on
ChainAllowList == <<"10.0.0.0/8">>

\* a request enters the subrouter
ChainArrive(s, r) ==
    /\ rl[s].pc = "none"
    /\ rl' = [rl EXCEPT ![s] = [FreeSlot EXCEPT !.pc = "csrf", !.r = r,
                                               !.ip = GetRealIP(r)]]
    /\ UNCHANGED <<pipeVars, limiters, tokens, win, call, pending, migrations>>

\* createCSRFMiddleware: the request goes on when the token check raises no
\* objection, and is answered 403 by CSRFFailureHandler otherwise
ChainCSRF(s, tokenOk) ==
    /\ rl[s].pc = "csrf"
    /\ rl' = IF tokenOk
             THEN [rl EXCEPT ![s].pc = "whitelist", ![s].csrf = "pass"]
             ELSE [rl EXCEPT ![s].pc = "rejected", ![s].csrf = "deny"]
    /\ UNCHANGED <<pipeVars, limiters, tokens, win, call, pending, migrations>>

\* a whitelist that notes its verdict and hands every request on
ChainWhitelistNotesOnly(s) ==
    /\ rl[s].pc = "whitelist"
    /\ rl' = IF IPWhitelistMiddleware(ChainAllowList, rl[s].r) = "next"
             THEN [rl EXCEPT ![s].pc = "lookup", ![s].wl = "pass"]
             ELSE [rl EXCEPT ![s].pc = "lookup", ![s].wl = "deny"]
    /\ UNCHANGED <<pipeVars, limiters, tokens, win, call, pending, migrations>>

\* IPWhitelistMiddleware, then RateLimitMiddleware is entered
ChainWhitelist(s) ==
    /\ rl[s].pc = "whitelist"
    /\ rl' = IF IPWhitelistMiddleware(ChainAllowList, rl[s].r) = "next"
             THEN [rl EXCEPT ![s].pc = "lookup", ![s].wl = "pass"]
             ELSE [rl EXCEPT ![s].pc = "rejected", ![s].wl = "deny"]
    /\ UNCHANGED <<pipeVars, limiters, tokens, win, call, pending, migrations>>

(***************************************************************************)
(* HandleCookieConsent                                                     *)
(***************************************************************************)
\* the consent bodies the endpoint is called with
ValidConsent ==
    [decodeOk |-> TRUE, ServiceName |-> "acme", Fingerprint |-> "fp-1",
     Timestamp |-> "2025-07-04T10:00:00Z", Accepted |-> TRUE]
Consents ==
    { ValidConsent,
      [ValidConsent EXCEPT !.ServiceName = "ghost", !.Accepted = FALSE],
      [ValidConsent EXCEPT !.ServiceName = ""],
      [ValidConsent EXCEPT !.Fingerprint = ""],
      [ValidConsent EXCEPT !.Timestamp = ""],
      [ValidConsent EXCEPT !.decodeOk = FALSE, !.ServiceName = "",
                           !.Fingerprint = "", !.Timestamp = ""] }

ConsentRow(consent) ==
    [table |-> "cookie_consents",
     service_name |-> consent.ServiceName, fingerprint |-> consent.Fingerprint,
     accepted |-> consent.Accepted, timestamp |-> consent.Timestamp]

\* logConsentToDB: one INSERT, which the database carries out or refuses
logConsentToDB(table, consent, dbOk) ==
    IF dbOk THEN [err |-> FALSE, rows |-> Append(table, ConsentRow(consent))]
    ELSE [err |-> TRUE, rows |-> table]

\* a handler that answers 200 whatever the insert returned
HandleCookieConsentIgnoresDbError(table, consent, dbOk) ==
    IF ~consent.decodeOk
    THEN [code |-> 400, msg |-> "Invalid request payload", status |-> "",
          service |-> "", inserts |-> 0, rows |-> table]
    ELSE IF consent.ServiceName = "" \/ consent.Fingerprint = "" \/ consent.Timestamp = ""
    THEN [code |-> 400, msg |-> "Missing required fields", status |-> "",
          service |-> "", inserts |-> 0, rows |-> table]
    ELSE [code |-> 200, msg |-> "", status |-> "logged",
          service |-> consent.ServiceName, inserts |-> 1,
          rows |-> logConsentToDB(table, consent, dbOk).rows]

\* HandleCookieConsent: the response, the number of INSERTs attempted and the
\* table afterwards
HandleCookieConsent(table, consent, dbOk) ==
    IF ~consent.decodeOk
    THEN [code |-> 400, msg |-> "Invalid request payload", status |-> "",
          service |-> "", inserts |-> 0, rows |-> table]
    ELSE IF consent.ServiceName = "" \/ consent.Fingerprint = "" \/ consent.Timestamp = ""
    THEN [code |-> 400, msg |-> "Missing required fields", status |-> "",
          service |-> "", inserts |-> 0, rows |-> table]
    ELSE IF logConsentToDB(table, consent, dbOk).err
    THEN [code |-> 500, msg |-> "Failed to log consent", status |-> "",
          service |-> "", inserts |-> 1,
          rows |-> logConsentToDB(table, consent, dbOk).rows]
    ELSE [code |-> 200, msg |-> "", status |-> "logged",
          service |-> consent.ServiceName, inserts |-> 1,
          rows |-> logConsentToDB(table, consent, dbOk).rows]

\* one request to the consent endpoint
Consent(consent, dbOk) ==
    /\ Len(rows) < MaxRows
    /\ LET res == HandleCookieConsent(rows, consent, dbOk)
       IN /\ rows' = res.rows
          /\ call' = [op |-> "consent", env |-> call.env, consent |-> consent,
                      dbOk |-> dbOk, code |-> res.code, msg |-> res.msg,
                      status |-> res.status, service |-> res.service,
                      inserts |-> res.inserts, at |-> Len(rows)]
    /\ UNCHANGED <<services, now, fs, h, rlVars, win, pending, migrations>>

\* next.ServeHTTP of the rate limiter: the handler of the consent endpoint
\* runs and the request is over
ChainHandle(s, dbOk) ==
    /\ rl[s].pc = "served"
    /\ Len(rows) < MaxRows
    /\ rows' = HandleCookieConsent(rows, ValidConsent, dbOk).rows
    /\ rl' = [rl EXCEPT ![s] = FreeSlot]
    /\ UNCHANGED <<services, now, fs, h, limiters, tokens, win, call, pending, migrations>>

\* the handler of the order endpoint has returned; the server takes the next
\* order request
NextOrder ==
    /\ h.pc = "done"
    /\ Len(rows) < MaxRows
    /\ h' = IdleFrame
    /\ UNCHANGED <<services, now, fs, rows, rlVars, win, call, pending, migrations>>

Init ==
    /\ services = LoadServices(Environ)
    /\ now = 0
    /\ fs = {}
    /\ rows = << >>
    /\ h = IdleFrame
    /\ limiters = << >>
    /\ tokens = [l \in {"limiter"} |-> Burst]
    /\ rl = [s \in Slots |-> FreeSlot]
    /\ win = NoWindow
    /\ call = Loaded(Environ)
    /\ pending = {}
    /\ migrations = <<"2025070401_init.sql">>

Next ==
    \/ \E o \in Orders, hd \in Headers : Receive(o, hd)
    \/ SaveFiles
    \/ \E s, b \in BOOLEAN : Render(s, b)
    \/ \E smtp \in {"ok", "failed"} : DispatchEmail(smtp)
    \/ \E disk \in {ReadFailed, ReadOf(ShortText), ReadOf(EdgeText)}, api \in {"ok", "failed"} :
          DispatchChat(disk, api)
    \/ \E dbOk \in BOOLEAN : LogOrder(dbOk)
    \/ Cleanup
    \/ Tick
    \/ \E f \in fs : TimerFire(f)
    \/ \E d \in SweepAges : Sweep(d)

Spec == Init /\ [][Next]_vars

\* the two endpoints that write to the database, serving request after request
AuditOrders ==
    {o \in Orders : /\ o.decodeOk /\ o.FullName = "Ann"
                    /\ o.ContactInfo = "ann@example.com" /\ o.Language = ""
                    /\ o.BriefFile = NoBytes /\ o.InvoicePdf = GoodPdf
                    /\ o.SpecificationPdf \in {GoodPdf, GifFile}}

NextAudit ==
    \/ \E o \in AuditOrders, hd \in {x \in Headers : x.XServiceName \in {"ACME", "ghost"}} :
          Receive(o, hd)
    \/ SaveFiles
    \/ Render(TRUE, TRUE)
    \/ DispatchEmail("ok")
    \/ \E api \in {"ok", "failed"} : DispatchChat(ReadOf(ShortText), api)
    \/ \E dbOk \in BOOLEAN : LogOrder(dbOk)
    \/ Cleanup
    \/ NextOrder
    \/ \E consent \in Consents, dbOk \in BOOLEAN : Consent(consent, dbOk)

SpecAudit == Init /\ [][NextAudit]_vars

\* process starts over a database file that is new at first
InitMig ==
    /\ services = LoadServices(Environ)
    /\ now = 0
    /\ fs = {}
    /\ rows = << >>
    /\ h = IdleFrame
    /\ limiters = << >>
    /\ tokens = [l \in {"limiter"} |-> Burst]
    /\ rl = [s \in Slots |-> FreeSlot]
    /\ win = NoWindow
    /\ call = Loaded(Environ)
    /\ pending = {}
    /\ migrations = << >>

NextMig ==
    \E entries \in SUBSET DirEntries :
       \E fail \in entries \cup {"", "commit"} : Start(entries, fail)

SpecMig == InitMig /\ [][NextMig]_vars

\* requests to /api/v1 through the three middlewares and the handler
NextChain ==
    \/ \E s \in Slots, r \in Requests : ChainArrive(s, r)
    \/ \E s \in Slots, tokenOk \in BOOLEAN : ChainCSRF(s, tokenOk)
    \/ \E s \in Slots : ChainWhitelist(s)
    \/ \E s \in Slots : RLLookup(s)
    \/ \E s \in Slots : RLWait(s)
    \/ \E s \in Slots : RLCtxDoneEarly(s)
    \/ RLRefill
    \/ \E s \in Slots : RLWake(s)
    \/ \E s \in Slots : RLCancel(s)
    \/ \E s \in Slots, dbOk \in BOOLEAN : ChainHandle(s, dbOk)
    \/ \E s \in Slots : RLDone(s)

SpecChain == Init /\ [][NextChain]_vars

\* the file store on its own
NextStore ==
    \/ \E data \in Buffers, name \in FileNames, io \in WriteOutcomes :
          StoreSave(data, name, io)
    \/ \E p \in pending : StoreDelete(p)
    \/ \E d \in SweepAges : StoreSweepList(d)
    \/ \E data \in Buffers : StoreValidate(data)
    \/ Tick

SpecStore == Init /\ [][NextStore]_vars

\* the file store in a directory that also holds a sub-directory, swept by
\* CleanOldFiles
NextSweep ==
    \/ \E data \in {GoodPdf, GifFile}, name \in FileNames, io \in WriteOutcomes :
          StoreSave(data, name, io)
    \/ \E p \in pending : StoreDelete(p)
    \/ \E d \in SweepAges : StoreSweepList(d)
    \/ \E d \in SweepAges, trouble \in Troubles : StoreSweep(d, trouble)
    \/ StoreMkdir
    \/ Tick

SpecSweep == Init /\ [][NextSweep]_vars

\* time goes on and a goroutine whose sleep is over runs
SpecStoreFair ==
    /\ Init /\ [][NextStore]_vars
    /\ WF_vars(Tick)
    /\ \A name \in FileNames, due \in 0..(MaxTime + CleanupInterval) :
          WF_vars(StoreDelete(Timer(name, due)))

NextRL ==
    \/ \E s \in Slots, ip \in ClientIPs : RLArrive(s, ip)
    \/ \E s \in Slots : RLLookup(s)
    \/ \E s \in Slots : RLWait(s)
    \/ \E s \in Slots : RLCtxDoneEarly(s)
    \/ RLRefill
    \/ \E s \in Slots : RLWake(s)
    \/ \E s \in Slots : RLCancel(s)
    \/ \E s \in Slots : RLDone(s)

SpecRL == Init /\ [][NextRL]_vars

\* the rate limiter under the requests of one client, with one minute
\* observed.  (All clients draw on the same limiter object: the requests of
\* other clients can only take tokens away from the observed one.)
NextRLWin ==
    \/ RLOpenWindow(ObservedIP)
    \/ \E s \in Slots : RLArrive(s, ObservedIP)
    \/ \E s \in Slots : RLLookup(s)
    \/ \E s \in Slots : RLWait(s)
    \/ \E s \in Slots : RLCtxDoneEarly(s)
    \/ RLRefill
    \/ \E s \in Slots : RLWake(s)
    \/ \E s \in Slots : RLCancel(s)
    \/ \E s \in Slots : RLDone(s)

SpecRLWin == Init /\ [][NextRLWin]_vars

(***************************************************************************)
(* The registry and the language negotiation called on their own, over the *)
(* sample environments                                                     *)
(***************************************************************************)
\* config.GetService(name)
RegResolve(name) ==
    /\ call' = [op |-> "resolve", env |-> call.env, name |-> name,
                res |-> GetService(services, name)]
    /\ UNCHANGED <<pipeVars, rlVars, win, pending, migrations>>

\* the language selection of HandleProjectOrder for a resolved tenant
RegNegotiate(name, requested, hint) ==
    /\ GetService(services, name).ok
    /\ call' = [op |-> "negotiate", env |-> call.env, name |-> name,
                requested |-> requested, hint |-> hint,
                lang |-> NegotiateLang(GetService(services, name).svc,
                                       RequestedLang([Language |-> requested],
                                                     [AcceptLanguage |-> hint]))]
    /\ UNCHANGED <<pipeVars, rlVars, win, pending, migrations>>

\* SendTelegramNotification(service, lang, data)
RegNotify(name, lang, fullName, disk, api) ==
    /\ GetService(services, name).ok
    /\ call' = [op |-> "notify", env |-> call.env, name |-> name, lang |-> lang,
                fullName |-> fullName, disk |-> disk, api |-> api,
                res |-> SendTelegramNotification(GetService(services, name).svc, lang,
                                                 [full_name |-> fullName], disk, api)]
    /\ UNCHANGED <<pipeVars, rlVars, win, pending, migrations>>

\* utils.FillTemplate(template, data), the map iterated in the given order
RegFill(template, data, order) ==
    /\ call' = [op |-> "fill", env |-> call.env, template |-> template,
                data |-> data, order |-> order,
                res |-> FillTemplate(template, data, order)]
    /\ UNCHANGED <<pipeVars, rlVars, win, pending, migrations>>

\* the templates and the data mappings the renderer is called with
Templates ==
    { << >>, <<"Order received">>, <<"Hi ", "{full_name}">>,
      <<"{full_name}", " <", "{contact}", "> ", "{missing}">>,
      <<"{languages}", " of ", "{full_name}", "{full_name}">> }
DataSets ==
    { [full_name |-> StrValue(<<"Ann">>), contact |-> StrValue(<<"a@b.io">>)],
      [full_name |-> StrValue(<<"{contact}">>), contact |-> StrValue(<<"a@b.io">>)],
      [full_name |-> StrValue(<<"Ann">>), languages |-> IntValue(2)],
      [contact |-> StrValue(<<"{missing}", "{contact}">>)] }
\* the orders a map iteration can take
Iterations(data) ==
    {o \in [1..Cardinality(DOMAIN data) -> DOMAIN data] :
        \A i, j \in DOMAIN o : i # j => o[i] # o[j]}

\* IPWhitelistMiddleware on one request under a value of ALLOWED_IPS
RegWhitelist(allowedIPs, r) ==
    /\ call' = [op |-> "whitelist", env |-> call.env, allowedIPs |-> allowedIPs,
                r |-> r, clientIP |-> GetRealIP(r),
                res |-> IPWhitelistMiddleware(allowedIPs, r)]
    /\ UNCHANGED <<pipeVars, rlVars, win, pending, migrations>>

\* what reading a chat template file can give
TemplateReads ==
    {ReadFailed} \cup {ReadOf(t) : t \in {ShortText, EdgeText, NameEdgeText, LongText, CyrillicText}}

InitReg ==
    /\ \E env \in Environs : services = LoadServices(env) /\ call = Loaded(env)
    /\ now = 0
    /\ fs = {}
    /\ rows = << >>
    /\ h = IdleFrame
    /\ limiters = << >>
    /\ tokens = [l \in {"limiter"} |-> Burst]
    /\ rl = [s \in Slots |-> FreeSlot]
    /\ win = NoWindow
    /\ pending = {}
    /\ migrations = <<"2025070401_init.sql">>

NextReg ==
    \/ \E name \in ServiceNames : RegResolve(name)
    \/ \E name \in ServiceNames, requested, hint \in LangCodes :
          RegNegotiate(name, requested, hint)
    \/ \E name \in ServiceNames, lang \in {"en", "ru"}, fullName \in {"", "Ann"},
          disk \in TemplateReads, api \in {"ok", "failed"} :
          RegNotify(name, lang, fullName, disk, api)
    \/ \E template \in Templates, data \in DataSets :
          \E order \in Iterations(data) : RegFill(template, data, order)
    \/ \E allowedIPs \in AllowLists, r \in Requests : RegWhitelist(allowedIPs, r)

SpecReg == InitReg /\ [][NextReg]_vars

\* the timers of the runtime fire and time goes on
SpecRLFair ==
    /\ Init /\ [][NextRL]_vars
    /\ WF_vars(RLRefill)
    /\ \A s \in Slots : WF_vars(RLWake(s))

(***************************************************************************)
(* Properties of the order pipeline, checked under Spec                    *)
(***************************************************************************)
\* the request is past the dispatch step: both channel calls are behind it
PastDispatch == h.pc \in {"log", "cleanup"} \/ (h.pc = "done" /\ h.filePaths # {})

\* the handler has returned
Responded == h.pc = "done"

NoSideEffects ==
    /\ fs = {}
    /\ h.emailCalls = 0 /\ h.smtpDials = 0
    /\ h.chatCalls = 0 /\ h.apiCalls = 0
    /\ h.dbCalls = 0 /\ rows = << >>

C2_SuccessImpliesAuditRow ==
    (h.pc \in {"cleanup", "done"} /\ h.dbCalls = 1) =>
        /\ (h.code = 200 /\ h.status = "success" => Len(rows) = 1)
        /\ (h.dbErr => h.code >= 500)

\* C3: a request whose files were persisted ends, when it ends, with 200
\* "success" after the chat send and the audit write were made, and no error
\* message is in the response, whichever of the template reads, the attachment
\* read, the SMTP send and the chat API call failed.
C3_PersistedEndsIn200 ==
    /\ (h.filePaths # {} => h.pc \in {"render", "email", "chat", "log", "cleanup", "done"})
    /\ (h.filePaths # {} /\ h.pc \in {"cleanup", "done"} =>
          /\ h.code = 200 /\ h.status = "success" /\ h.msg = ""
          /\ h.chatCalls = 1 /\ h.dbCalls = 1)

\* both channels failed, both templates were unreadable, and the answer is 200
C3_Witness ==
    /\ Responded /\ h.code = 200
    /\ h.emailErr = "SMTP send failed" /\ h.chatErr = "send failed"
    /\ h.lang = "en" /\ h.hdr.XServiceName = "ACME"
    /\ h.subject = "Order Confirmation" /\ h.body = "Order received"

AnyPdfInvalid(order) ==
    \E name \in Mandatory : ~ValidatePDF(Content(order, name))

\* C4: a request one of whose three mandatory PDFs fails ValidatePDF is
\* answered 400 and leaves no file, no email or chat call and no audit row.
C4_InvalidPdfRejectedCleanly ==
    (h.pc # "idle" /\ AnyPdfInvalid(h.order)) =>
        Responded /\ h.code = 400 /\ NoSideEffects

\* a decodable order with its required fields whose specification is not a
\* PDF, turned away for that
C4_Witness ==
    /\ Responded /\ h.order.SpecificationPdf = GifFile
    /\ h.msg = "Invalid PDF files" /\ h.code = 400

\* C5: a request whose X-Service-Name is empty or names no registered tenant
\* is answered 400 and leaves no file, no email or chat call and no audit row.
C5_UnknownTenantRejectedCleanly ==
    (h.pc # "idle" /\ (h.hdr.XServiceName = ""
                        \/ ToLower(h.hdr.XServiceName) \notin DOMAIN services)) =>
        Responded /\ h.code = 400 /\ NoSideEffects

C5_Witness ==
    /\ Responded /\ h.hdr.XServiceName = "ghost"
    /\ h.msg = "Service not configured" /\ h.code = 400

\* C6: when saving a file fails the request is answered 500, no file of the
\* request is left in the temp directory once it has returned, and there is
\* no email or chat call and no audit row.
C6_SaveFailureLeavesNothing ==
    (Responded /\ h.saveErr # "") =>
        /\ h.code = 500
        /\ fs = {}
        /\ h.emailCalls = 0 /\ h.chatCalls = 0 /\ h.dbCalls = 0 /\ rows = << >>

\* C7: after tenant resolution only the failure to save one of the three
\* mandatory files ends a request with a status other than 200.
C7_OnlyMandatorySaveIsFatal ==
    (Responded /\ h.lang # "" /\ h.code # 200) => h.failed \in Mandatory

\* C8: an order with a mandatory PDF longer than MaxFileSize, or one the file
\* store does not sniff as application/pdf, is answered with a 4xx status.
C8_BadPdfIsClientError ==
    (Responded /\ h.order.decodeOk
       /\ \E name \in Mandatory :
            \/ Content(h.order, name).len > MaxFileSize
            \/ DetectContentType(Content(h.order, name)) # "application/pdf") =>
        (h.code >= 400 /\ h.code < 500)

\* C9: once the handler has returned, no file that SaveTempFile persisted for
\* the request is in the temp directory.
C9_NoPersistedFileAfterReturn ==
    Responded => {f \in fs : f.armed} = {}

\* four files were persisted, a channel failed, and the directory is empty
C9_Witness ==
    /\ Responded /\ h.code = 200
    /\ h.filePaths = Mandatory \cup {"brief"}
    /\ h.chatErr # ""
    /\ fs = {}

(***************************************************************************)
(* Properties of the rate limiter, checked under SpecRL                    *)
(***************************************************************************)
\* C10: a request taking (or reserving) a token leaves the bucket of every
\* other client IP as it was.
C10_OwnBucketPerIP ==
    [][\A s \in Slots :
          (rl[s].pc = "wait" /\ rl'[s].pc \in {"served", "waiting"}) =>
             \A b \in DOMAIN limiters \ {rl[s].ip} :
                tokens'[limiters[b]] = tokens[limiters[b]]]_vars

\* C11 as stated: in any one minute at most K (Burst) requests of one client
\* IP are passed on to the handler, those passed on at once included.
C11_AtMostBurstPerMinute ==
    win.phase = "open" => win.passed <= Burst

\* C11 as amended: of the requests of one client IP that arrive together (no
\* refill between them) at most Burst are passed on, and in any one minute at
\* most Burst plus one per refill in that minute, so at most 2 * Burst.
C11_AtMostBurstPlusRefills ==
    win.phase = "open" =>
        /\ win.passed <= Burst + win.ticks
        /\ win.passed <= 2 * Burst
        /\ (win.ticks = 0 => win.passed <= Burst)

\* a full burst was passed on at once and the next request is held
C11_Witness ==
    /\ win.phase = "open" /\ win.ticks = 0 /\ win.passed = Burst
    /\ \E s \in Slots : rl[s].pc = "waiting" /\ rl[s].ip = win.ip

\* C12: a request held in Wait leaves it only as passed on to the handler or
\* as answered 429, never both and never back into the queue, and it does
\* leave it: it is not held forever.
C12_HeldRequestEnds ==
    /\ [][\A s \in Slots :
            rl[s].pc = "waiting" => rl'[s].pc \in {"waiting", "served", "rejected"}]_vars
    /\ \A s \in Slots :
          (rl[s].pc = "waiting") ~> (rl[s].pc \in {"served", "rejected"})

\* a request that was held for a token two refills away and was answered 429
\* when its context was done, while another one is still held
C12_Witness ==
    \E s, o \in Slots :
        /\ rl[s].pc = "rejected" /\ rl[s].need > 0
        /\ rl[o].pc = "waiting"

(***************************************************************************)
(* Properties of the registry and the negotiation, checked under SpecReg   *)
(***************************************************************************)
\* the positions of the *_SERVICE_NAME keys in an environment
Declarations(env) ==
    {i \in 1..Len(env) : Len(env[i].key) = 2 /\ env[i].key[2] = "SERVICE_NAME"}

\* the tenant a call was made for
CalledSvc == services[ToLower(call.name)]

\* the code a negotiation starts from: the requested one, else the hint, else "en"
Wanted ==
    IF call.requested # "" THEN call.requested
    ELSE IF call.hint # "" THEN call.hint
    ELSE "en"

CaseVariants(n) ==
    CASE n \in {"Acme", "ACME", "acme"} -> {"Acme", "ACME", "acme"}
      [] n \in {"Gamma", "GAMMA", "gamma"} -> {"Gamma", "GAMMA", "gamma"}
      [] OTHER -> {n}

\* C14: GetService finds a profile exactly when the identifier is, but for
\* letter case, the name some prefix declares, and the profile found is one
\* declared under that name; a prefix of a name, or a name with white space
\* around it, finds nothing.
C14_ResolutionExactIgnoringCase ==
    call.op = "resolve" =>
        /\ call.res.ok <=>
              \E i \in Declarations(call.env) : call.name \in CaseVariants(call.env[i].val)
        /\ (call.res.ok =>
              \E i \in Declarations(call.env) :
                 /\ call.name \in CaseVariants(call.env[i].val)
                 /\ call.res.svc = ServiceOf(call.env, call.env[i].key[1], call.env[i].val))

\* the name found under another letter case
C14_Witness ==
    /\ call.op = "resolve" /\ call.name = "acme" /\ call.res.ok
    /\ call.res.svc.Name = "Acme"

\* C15 as stated: there are as many resolvable profiles as prefixes declaring
\* a *_SERVICE_NAME key, and the name each prefix declares resolves to the
\* profile made of the settings of that prefix.
C15_OneProfilePerPrefix ==
    /\ Cardinality(DOMAIN services) = Cardinality(Declarations(call.env))
    /\ \A i \in Declarations(call.env) :
          GetService(services, call.env[i].val) =
             [ok |-> TRUE, svc |-> ServiceOf(call.env, call.env[i].key[1], call.env[i].val)]

\* C15 as amended: there is one resolvable profile per name declared, names
\* taken without letter case: as many as declaring prefixes when no two
\* prefixes declare the same name, and where several do, that name resolves to
\* the profile of the last of them.  A declaration without companion keys
\* gives a profile with empty settings.
C15_OneProfilePerName ==
    LET env == call.env
        decl == Declarations(env)
        last == {i \in decl : \A j \in decl : ToLower(env[j].val) = ToLower(env[i].val) => j <= i}
    IN /\ DOMAIN services = {ToLower(env[i].val) : i \in decl}
       /\ Cardinality(DOMAIN services) = Cardinality(last)
       /\ \A i \in last :
             GetService(services, env[i].val) =
                [ok |-> TRUE, svc |-> ServiceOf(env, env[i].key[1], env[i].val)]
       /\ \A i \in last :
             Getenv(env, <<env[i].key[1], "SMTP_HOST">>) = "" =>
                /\ GetService(services, env[i].val).ok
                /\ GetService(services, env[i].val).svc.SMTP.Host = ""
       /\ ((\A i, j \in decl : ToLower(env[i].val) = ToLower(env[j].val) => i = j) =>
             Cardinality(DOMAIN services) = Cardinality(decl))

\* the tenant declared by its name alone was resolved, with empty settings
C15_Witness ==
    /\ call.op = "resolve" /\ call.name = "beta" /\ call.env = Environ
    /\ call.res.ok /\ call.res.svc.SMTP.Host = ""
    /\ call.res.svc.Telegram = [BotToken |-> "", ChatID |-> ""]
    /\ Cardinality(DOMAIN services) = 2

\* C16: the negotiation tests a code against the declared languages as they
\* are keyed in the template locator maps (lower case, no surrounding space):
\* a wanted code that is a declared language is the one negotiated, and the
\* locators configured for the negotiated language are found under it.
C16_NegotiatedFindsLocators ==
    call.op = "negotiate" =>
        LET declared == {NormLang(d) : d \in Range(CalledSvc.SupportedLangs)}
        IN /\ (Wanted = NormLang(Wanted) /\ Wanted \in declared => call.lang = Wanted)
           /\ \A paths \in {CalledSvc.EmailTemplateSubjectPaths,
                            CalledSvc.EmailTemplateBodyPaths,
                            CalledSvc.TelegramTemplatePaths} :
                 NormLang(call.lang) \in DOMAIN paths => call.lang \in DOMAIN paths

(***************************************************************************)
(* Properties of the two channels                                          *)
(***************************************************************************)
\* C17: an order request makes at most one SendOrderEmail call with at most
\* one SMTP dial, and at most one SendTelegramNotification call with at most
\* one call to the bot API, at any time and however they ended.
C17_AtMostOnceEachChannel ==
    /\ h.emailCalls <= 1 /\ h.smtpDials <= 1
    /\ h.chatCalls <= 1 /\ h.apiCalls <= 1

\* the handler has returned with both deliveries and the insert failed, each
\* tried once
C17_Witness ==
    /\ Responded /\ h.dbErr
    /\ h.emailErr = "SMTP send failed" /\ h.smtpDials = 1
    /\ h.chatErr = "send failed" /\ h.apiCalls = 1

\* C18: a chat send for a tenant whose bot token or chat id is empty returns
\* ErrTelegramNotConfigured without loading a template or calling the bot
\* API; with both set it never returns that error.
C18_NotConfiguredFailsFast ==
    call.op = "notify" =>
        IF CalledSvc.Telegram.BotToken # "" /\ CalledSvc.Telegram.ChatID # ""
        THEN call.res.err # "ErrTelegramNotConfigured"
        ELSE /\ call.res.err = "ErrTelegramNotConfigured"
             /\ call.res.loads = 0 /\ call.res.calls = 0

\* a tenant with a bot token and no chat id, turned away
C18_Witness ==
    /\ call.op = "notify" /\ call.name = "Gamma"
    /\ CalledSvc.Telegram.BotToken = "tok" /\ CalledSvc.Telegram.ChatID = ""
    /\ call.res.err = "ErrTelegramNotConfigured" /\ call.res.calls = 0

\* C19: SendOrderEmail called with a contact that is not a mailbox address
\* returns the invalid-recipient error and dials no SMTP server.
C19_InvalidRecipientNoDial ==
    (h.emailCalls = 1 /\ ~ParseAddressOk(h.order.ContactInfo)) =>
        h.emailErr = "invalid recipient" /\ h.smtpDials = 0

\* an order whose contact is a phone number, with attachments ready
C19_Witness ==
    /\ h.emailCalls = 1 /\ h.order.ContactInfo = "+1 555 0100"
    /\ h.attachments # {} /\ h.emailErr = "invalid recipient"

\* the number of characters of the text a chat send has to send: the
\* template with the name filled in and a backslash before every special
\* character
EscapedChars ==
    call.disk.text.plain + call.disk.text.names * StrLen(call.fullName)
       + 2 * call.disk.text.special + call.disk.text.wide

\* C20: a chat send whose escaped text is longer than maxMessageLength
\* characters fails with ErrMessageTooLong and calls no bot API; a text that
\* is sent is the whole escaped text, within the limit.
C20_TooLongNeverSent ==
    call.op = "notify" =>
        /\ (call.res.err \notin {"ErrTelegramNotConfigured", "template error"}
               /\ EscapedChars > maxMessageLength =>
              call.res.err = "ErrMessageTooLong" /\ call.res.calls = 0)
        /\ (call.res.calls > 0 =>
              /\ CharLen(call.res.sent) = EscapedChars
              /\ EscapedChars <= maxMessageLength)

\* a text of 4090 characters that is over the limit once escaped
C20_Witness ==
    /\ call.op = "notify" /\ call.disk = ReadOf(EdgeText)
    /\ CharLen(call.disk.text) <= maxMessageLength
    /\ call.res.err = "ErrMessageTooLong" /\ call.res.calls = 0

(***************************************************************************)
(* Properties of the template renderer                                     *)
(***************************************************************************)
\* the handler has rendered the subject and the body of the email
Rendered == h.filePaths # {} /\ h.pc \in {"email", "chat", "log", "cleanup", "done"}

\* C21: for the email subject and the email body in the negotiated language,
\* when no file path is configured the inline template of the tenant is the
\* text used, and in no case is the built-in default text put in its place.
C21_InlineOrFailure ==
    Rendered =>
        LET svc == GetService(services, h.hdr.XServiceName).svc
            inline == IF h.lang \in DOMAIN svc.EmailTemplates
                      THEN svc.EmailTemplates[h.lang]
                      ELSE [Subject |-> "", Body |-> ""]
        IN /\ (h.lang \notin DOMAIN svc.EmailTemplateSubjectPaths =>
                 /\ h.subject # "Order Confirmation"
                 /\ (inline.Subject # "" => h.subject = inline.Subject))
           /\ (h.lang \notin DOMAIN svc.EmailTemplateBodyPaths =>
                 /\ h.body # "Order received"
                 /\ (inline.Body # "" => h.body = inline.Body))

\* every placeholder piece whose key is in the mapping replaced by the string
\* form of its value, every other piece kept
RECURSIVE Substituted(_, _)
Substituted(template, data) ==
    IF template = << >> THEN << >>
    ELSE (IF \E k \in DOMAIN data : Placeholder(k) = Head(template)
          THEN Sprint(data[CHOOSE k \in DOMAIN data : Placeholder(k) = Head(template)])
          ELSE <<Head(template)>>)
         \o Substituted(Tail(template), data)

\* C22: rendering gives the template with every {key} token of a mapped key
\* replaced by the string form of its value and every other piece verbatim;
\* in particular a template without tokens comes back unchanged.
C22_TokensReplacedByValues ==
    call.op = "fill" => call.res = Substituted(call.template, call.data)

(***************************************************************************)
(* Properties of the consent endpoint and of the audit tables              *)
(***************************************************************************)
\* the step is a request to the consent endpoint
ConsentStep == call' # call /\ call'.op = "consent"

MissingFields(consent) ==
    \/ ~consent.decodeOk
    \/ consent.ServiceName = "" \/ consent.Fingerprint = "" \/ consent.Timestamp = ""

\* C23: a consent request is answered 400, with no insert and no new row,
\* exactly when the body is malformed or the service name, the fingerprint or
\* the timestamp is missing; otherwise it attempts exactly one insert and
\* answers 200 {status: "logged", service} with the row appended exactly when
\* the insert succeeded and 500 with no row exactly when it failed.
C23_ConsentOutcome ==
    [][ConsentStep =>
          /\ (call'.code = 400 <=> MissingFields(call'.consent))
          /\ (call'.code = 400 => call'.inserts = 0 /\ rows' = rows)
          /\ (call'.code # 400 =>
                /\ call'.inserts = 1
                /\ call'.code \in {200, 500}
                /\ (call'.code = 200 <=> call'.dbOk)
                /\ (call'.code = 200 =>
                      /\ call'.status = "logged"
                      /\ call'.service = call'.consent.ServiceName
                      /\ rows' = Append(rows, ConsentRow(call'.consent)))
                /\ (call'.code = 500 => rows' = rows))]_vars

\* consents were logged, refused and failed
C23_Witness ==
    /\ call.op = "consent" /\ call.code = 500 /\ call.at = 1
    /\ rows[1] = ConsentRow(ValidConsent)

\* C24: no step changes or removes a row that is in the audit tables: every
\* step leaves the rows there were in place and appends at most one, and a
\* request to the order endpoint makes at most one insert.
C24_AppendOnly ==
    /\ [][/\ Len(rows') \in {Len(rows), Len(rows) + 1}
          /\ SubSeq(rows', 1, Len(rows)) = rows]_vars
    /\ [](h.dbCalls <= 1)

\* an order row and a consent row are in the tables and a second order has
\* been logged after them
C24_Witness ==
    /\ Len(rows) = 3
    /\ rows[1].table = "project_orders" /\ rows[2].table = "cookie_consents"
    /\ rows[3].table = "project_orders"

(***************************************************************************)
(* Properties of the file store                                            *)
(***************************************************************************)
\* C25: whichever of the timer, the request cleanup and the sweep comes to a
\* file first removes it; an attempt on a file that is gone changes nothing;
\* no attempt touches another file, and none fails or hands an error to its
\* caller.
C25_DeletersIdempotent ==
    call.op = "remove" =>
        /\ call.after = {f \in call.before : f.name # call.name}
        /\ (call.name \notin FilesIn(call.before) =>
               call.after = call.before /\ call.err = "ENOENT")
        /\ ~call.failed

\* the timer of a file comes after the sweep and the cleanup have both gone
\* for the file, and another file is in the directory
C25_Witness ==
    /\ call.op = "remove" /\ call.kind = "timer" /\ call.err = "ENOENT"
    /\ call.before # {}
    /\ \A p \in pending : p.name # call.name

\* the deferred deletions pending for a file name
TimersOf(name) == {p \in pending : p.kind = "timer" /\ p.name = name}

\* C26: a successful save arms exactly one deferred deletion, due at the
\* creation time plus CleanupInterval, and a failed save arms none; the timer
\* never removes a file before it is due; and every file a save has stored is
\* eventually absent from the directory.
C26_SavedFilesGoAway ==
    /\ [](call.op = "save" =>
            /\ (call.err = "" => call.armed = {Timer(call.name, call.at + CleanupInterval)})
            /\ (call.err # "" => call.armed = {}))
    /\ [](\A f \in fs :
            /\ (f.armed => TimersOf(f.name) = {Timer(f.name, f.mtime + CleanupInterval)})
            /\ (~f.armed => TimersOf(f.name) = {}))
    /\ [](call.op = "remove" /\ call.kind = "timer" => call.at >= call.due)
    /\ \A name \in FileNames :
          (\E f \in fs : f.name = name /\ f.armed) ~> (name \notin FilesIn(fs))

\* the timer of a file has found it in place when due and has removed it
C26_Witness ==
    /\ call.op = "remove" /\ call.kind = "timer" /\ call.err = ""
    /\ call.at = call.due
    /\ call.name \notin FilesIn(fs)

\* C27: a save of more than MaxFileSize bytes fails with ErrFileTooLarge,
\* leaves the directory as it was and arms nothing; a buffer of exactly
\* MaxFileSize bytes is not turned away for its size; no file in the
\* directory is larger than MaxFileSize.
C27_SizeLimit ==
    /\ (call.op = "save" =>
          /\ (call.data.len > MaxFileSize =>
                /\ call.err = "ErrFileTooLarge"
                /\ call.after = call.before
                /\ call.armed = {})
          /\ (call.data.len <= MaxFileSize => call.err # "ErrFileTooLarge"))
    /\ \A f \in fs : f.size <= MaxFileSize

\* an oversized buffer has been turned away while a file of exactly
\* MaxFileSize bytes is in the directory
C27_Witness ==
    /\ call.op = "save" /\ call.data = BigPdf /\ call.err = "ErrFileTooLarge"
    /\ \E f \in fs : f.size = MaxFileSize

\* C28: when the buffer has been written and is not sniffed as
\* application/pdf, the save fails with ErrInvalidFileType, the directory
\* holds the files it held before the call and no deferred deletion is armed.
C28_InvalidTypeLeavesNothing ==
    (/\ call.op = "save" /\ call.io = "ok" /\ call.data.len <= MaxFileSize
     /\ DetectContentType(call.data) # "application/pdf")
    => /\ call.err = "ErrInvalidFileType"
       /\ call.after = call.before
       /\ call.armed = {}

\* a buffer with the PDF bytes but not the dash has been refused next to a
\* stored file
C28_Witness ==
    /\ call.op = "save" /\ call.data = NoDashPdf /\ call.err = "ErrInvalidFileType"
    /\ call.before # {}

\* the buffer starts with the five bytes %PDF-
Signature(data) ==
    /\ data.len >= 5
    /\ Len(data.head) >= 5
    /\ <<data.head[1], data.head[2], data.head[3], data.head[4], data.head[5]>>
          = <<"%", "P", "D", "F", "-">>

\* C29: ValidatePDF answers true exactly when the buffer starts with %PDF-
\* and the type sniffer calls it application/pdf; a buffer that only the
\* sniffer accepts, and any buffer shorter than five bytes, is refused.
C29_ValidatePDF ==
    call.op = "validate" =>
        /\ (call.res <=> (Signature(call.data) /\ IsMIMEPdf(call.data)))
        /\ (call.data.len < 5 => ~call.res)

\* a buffer the sniffer accepts without the signature has been refused
C29_Witness ==
    /\ call.op = "validate" /\ ~call.res
    /\ IsMIMEPdf(call.data) /\ ~Signature(call.data)

(***************************************************************************)
(* Properties of the registry over the life of the server                  *)
(***************************************************************************)
\* C30: the registry is the one LoadServices built before the server began to
\* serve: no step of a request handler or of a background task changes it,
\* and a lookup of a name gives the same answer before and after any step.
C30_RegistryNeverChanges ==
    /\ services = LoadServices(Environ)
    /\ [][/\ services' = services
          /\ \A name \in ServiceNames :
                GetService(services', name) = GetService(services, name)]_vars

\* an order for a registered tenant has been looked up, rendered, sent,
\* logged and answered while time went on and the sweep ran
C30_Witness ==
    /\ h.pc = "done" /\ h.code = 200 /\ now = MaxTime /\ fs = {}
    /\ GetService(services, h.hdr.XServiceName).ok
    /\ GetService(services, "acme") = GetService(LoadServices(Environ), "ACME")

(***************************************************************************)
(* Properties of the languages the templates are taken in                  *)
(***************************************************************************)
\* the profile a stand-alone chat notification was called with
NotifiedSvc == GetService(services, call.name).svc

\* C31: when a file path is configured for the chat text in the language
\* asked for, the file read at the render is the one at that path, whether or
\* not the file was there when the process started.
C31_PathOfLanguageReadAtRender ==
    (/\ call.op = "notify"
     /\ TelegramConfigured(NotifiedSvc.Telegram)
     /\ call.lang \in DOMAIN NotifiedSvc.TelegramTemplatePaths
     /\ NotifiedSvc.TelegramTemplatePaths[call.lang] # "")
    => LET used == getLocalizedTemplate(NotifiedSvc, call.lang, call.disk).lang
       IN /\ used \in DOMAIN NotifiedSvc.TelegramTemplatePaths
          /\ NotifiedSvc.TelegramTemplatePaths[used]
                = NotifiedSvc.TelegramTemplatePaths[call.lang]

\* C35: the text sent to the chat channel for an order is rendered from the
\* template of the negotiated language, the one of the email parts and of
\* the response.
C35_ChatInNegotiatedLanguage ==
    (h.pc \in {"log", "cleanup", "done"} /\ h.chatCalls = 1 /\ h.apiCalls > 0)
    => h.chatLang = h.lang

(***************************************************************************)
(* Properties of the migrations                                            *)
(***************************************************************************)
\* C32: a start runs the scripts not yet recorded, in ascending order of
\* their names, and never one that the migrations table names; a start that
\* finds no new script leaves the table as it is; a start in which a script
\* or the commit fails records none of its scripts; otherwise the scripts it
\* ran are appended to the table in the order they ran.  No name is ever
\* recorded twice.
C32_MigrationsOnceInOrder ==
    /\ \A i, j \in DOMAIN migrations : migrations[i] = migrations[j] => i = j
    /\ (call.op = "migrate" =>
          /\ \A i, j \in DOMAIN call.ran : i < j => Rank(call.ran[i]) < Rank(call.ran[j])
          /\ \A i \in DOMAIN call.ran :
                /\ call.ran[i] \notin Range(call.before)
                /\ call.ran[i] \in call.entries /\ Ext(call.ran[i]) = ".sql"
          /\ (call.err # "" => call.after = call.before)
          /\ (call.err = "" =>
                /\ call.after = call.before \o call.ran
                /\ \A e \in call.entries :
                      Ext(e) = ".sql" => e \in Range(call.after))
          /\ ({e \in call.entries : Ext(e) = ".sql"} \subseteq Range(call.before)
                => call.ran = << >> /\ call.after = call.before /\ call.err \in {"", "failed to commit migrations"}))

\* a start ran one script and failed on the next, after an earlier start had
\* recorded a script
C32_Witness ==
    /\ call.op = "migrate" /\ call.err = "failed to apply migration"
    /\ Len(call.ran) = 1 /\ Len(call.before) = 1
    /\ migrations = call.before

(***************************************************************************)
(* Properties of the sweep                                                 *)
(***************************************************************************)
\* the entries a sweep is to remove: files, not directories, whose
\* modification time lies more than olderThan back
Expired(entries, t, olderThan) == {e \in entries : ~e.dir /\ t - e.mtime > olderThan}

\* C33: a sweep removes the expired files it can read and remove and no
\* other entry: directories, files not older than the duration, and entries
\* it cannot read or remove stay as they were; with no such trouble exactly
\* the expired files go; the sweep returns nil in every case, and a removal
\* of a listed entry that has vanished meanwhile changes nothing and fails
\* nothing.
C33_SweepRemovesExactlyExpired ==
    /\ (call.op = "sweep" =>
          LET gone == call.before \ call.after
              exp == Expired(call.before, call.at, call.olderThan)
              bad == call.trouble.noinfo \cup call.trouble.noremove
          IN /\ call.err = ""
             /\ call.after \subseteq call.before
             /\ gone = {e \in exp : e.name \notin bad}
             /\ (bad = {} => gone = exp))
    /\ (call.op = "remove" /\ call.kind = "sweep" =>
          /\ ~call.failed
          /\ call.after = {f \in call.before : f.name # call.name})

\* a sweep has removed one expired file, kept another it could not remove,
\* and passed over a sub-directory of the same age
C33_Witness ==
    /\ call.op = "sweep" /\ call.olderThan = 0
    /\ \E e \in call.before : e.dir /\ call.at - e.mtime > 0 /\ e \in call.after
    /\ \E e \in call.before \ call.after : ~e.dir
    /\ \E e \in call.after : ~e.dir /\ e.name \in call.trouble.noremove
                              /\ call.at - e.mtime > 0

(***************************************************************************)
(* Properties of the audit row of an order                                 *)
(***************************************************************************)
\* C34: the row written for an order carries the negotiated language, the
\* one of the response, and the INSERT names only columns of the table the
\* migration creates.
C34_RowRecordsNegotiatedLanguage ==
    (h.pc \in {"cleanup", "done"} /\ h.dbCalls = 1 /\ ~h.dbErr /\ Len(rows) = 1)
    => /\ rows[1].language = h.respLang
       /\ LogOrderColumns \subseteq ProjectOrdersColumns

(***************************************************************************)
(* Determinism of the renderer                                             *)
(***************************************************************************)
\* C36: the text FillTemplate returns for a template and a data mapping is
\* the same whatever the order in which the keys of the mapping are visited.
C36_RenderingIgnoresKeyOrder ==
    call.op = "fill" =>
        \A other \in Iterations(call.data) :
            FillTemplate(call.template, call.data, other) = call.res

(***************************************************************************)
(* The attachments of the email and the deleters of the directory          *)
(***************************************************************************)
\* C37: once the email step of a request with persisted files is over, the
\* email has been handed to SendOrderEmail with every persisted file of the
\* request attached.
C37_EmailCarriesEveryPersistedFile ==
    (h.pc \in {"chat", "log", "cleanup", "done"} /\ h.filePaths # {})
    => /\ h.emailCalls = 1
       /\ h.attachments = h.filePaths

(***************************************************************************)
(* Properties of the IP whitelist                                          *)
(***************************************************************************)
\* C38: a request is handed on only if the allow-list holds "*" or the
\* client address parses and lies in a listed network or is a listed
\* address.
C38_WhitelistForwardsOnlyListed ==
    (call.op = "whitelist" /\ call.res = "next") =>
        \/ \E i \in DOMAIN call.allowedIPs : call.allowedIPs[i] = "*"
        \/ /\ ParseIP(call.clientIP) # << >>
           /\ \E i \in DOMAIN call.allowedIPs :
                 \/ /\ ParseCIDR(call.allowedIPs[i]).ok
                    /\ SubnetContains(ParseCIDR(call.allowedIPs[i]), ParseIP(call.clientIP))
                 \/ ParseIP(call.allowedIPs[i]) = ParseIP(call.clientIP)

(***************************************************************************)
(* Properties of the middleware chain                                      *)
(***************************************************************************)
\* the request in slot s has passed the CSRF check and the IP whitelist
GatesPassed(s) == rl[s].csrf = "pass" /\ rl[s].wl = "pass"

\* C39: the whitelist sees only requests the CSRF check has passed and the
\* rate limiter only requests both have passed; a token is taken from a
\* bucket only by such a request inside the limiter's Wait; and the audit
\* tables, the order frame and the temp directory change only in the step in
\* which the handler runs for a request that passed all three middlewares.
C39_ChainOrder ==
    /\ [](\A s \in Slots :
            /\ (rl[s].wl # "" => rl[s].csrf = "pass")
            /\ (rl[s].pc \in {"lookup", "wait", "waiting", "served"} => GatesPassed(s))
            /\ (rl[s].pc = "rejected" /\ ~GatesPassed(s) => rl[s].need = 0))
    /\ [][(\E l \in DOMAIN tokens : tokens'[l] < tokens[l])
            => \E s \in Slots : /\ rl[s].pc = "wait" /\ GatesPassed(s)
                                /\ rl'[s].pc \in {"served", "waiting"}]_vars
    /\ [][(rows' # rows \/ h' # h \/ fs' # fs)
            => \E s \in Slots : /\ rl[s].pc = "served" /\ GatesPassed(s)
                                /\ rl'[s] = FreeSlot]_vars

\* one request has been handled and left its row at the cost of one token,
\* while one turned away by the whitelist and one turned away by the CSRF
\* check are answered
C39_Witness ==
    /\ Len(rows) = 1
    /\ tokens["limiter"] = Burst - 1
    /\ \E s, o \in Slots :
          /\ rl[s].pc = "rejected" /\ rl[s].wl = "deny"
          /\ rl[o].pc = "rejected" /\ rl[o].csrf = "deny"

====
